---- MODULE Spec2Model ----
(***************************************************************************)
(* Access-gated single-document content store, preload-on-verify and the   *)
(* client retry harnesses of the react-test repository.                    *)
(*                                                                         *)
(* Strings that the code trims and upper-cases (access codes, secrets) are *)
(* sequences of one-character strings; every other string is an opaque     *)
(* TLA+ string.  JSON text is the tree that JSON.parse gives back, wrapped  *)
(* in [json |-> tree]; JSON.stringify drops the keys whose value is        *)
(* undefined.                                                              *)
(***************************************************************************)
EXTENDS Integers, Sequences, FiniteSets, TLC

VARIABLES
    accessCode,     \* process.env.ACCESS_CODE of the function
    editorCode,     \* process.env.EDITOR_CODE of the function
    apiKeySet,      \* whether process.env.APPWRITE_API_KEY is set
    version,        \* which verify-access-code is deployed: the repository's main.js or the build guide's
    docs,           \* the documents of the collection, in listing order; a document's $id is its position
    last,           \* the request handled last and the response it got (sequential requests)
    lastAck,        \* the content of the latest save-questions answered saved:true
    inflight,       \* per browser, its save request whose fetches are under way
    client,         \* one browser: the access wall, then the page or editor it unlocks
    call,           \* one call of a retrying client function and the gateway results it has seen
    report,         \* one run of formatResults: the question under the loop and the running score
    editor          \* TestEditor: the questions state, and the handler that ran last

envVars == <<accessCode, editorCode, apiKeySet, version>>

(***************************************************************************)
(* Bounds of the model                                                     *)
(***************************************************************************)
MaxCodeLen == 2
MaxDocs == 2
MaxCalls == 6
MaxOptions == 2
MaxQuestions == 2

(***************************************************************************)
(* Strings: String.prototype.trim and toUpperCase                          *)
(***************************************************************************)
Chars == {"a", "A", " "}

Codes == UNION {[1..n -> Chars] : n \in 0..MaxCodeLen}

\* an environment variable or body field that is not there
Undefined == <<"undefined">>

IsWhitespace(c) == c = " "

RECURSIVE trimStart(_)
trimStart(s) ==
    IF s # <<>> /\ IsWhitespace(Head(s)) THEN trimStart(Tail(s)) ELSE s

RECURSIVE trimEnd(_)
trimEnd(s) ==
    IF s # <<>> /\ IsWhitespace(s[Len(s)]) THEN trimEnd(SubSeq(s, 1, Len(s) - 1)) ELSE s

trim(s) == trimEnd(trimStart(s))

upperChar(c) == IF c = "a" THEN "A" ELSE c

\* variant: a comparison that keeps the case of the letters
keepCase(s) == s

toUpperCase(s) == [i \in DOMAIN s |-> upperChar(s[i])]

\* JavaScript truthiness of a string-or-undefined value
Truthy(s) == s # Undefined /\ s # <<>>

(***************************************************************************)
(* JSON values carried in the "questions" field                            *)
(***************************************************************************)
NoSettings == [randomizeQuestions |-> "absent"]

\* the field is not there (undefined)
Absent == [kind |-> "absent", settings |-> NoSettings, questions |-> <<>>]
\* the JSON value null
Null == [kind |-> "null", settings |-> NoSettings, questions |-> <<>>]

Payload(s, qs) == [kind |-> "object", settings |-> s, questions |-> qs]
BareArray(qs) == [kind |-> "array", settings |-> NoSettings, questions |-> qs]

\* reading a property the JavaScript way: a missing key reads as undefined
Get(q, k) == IF k \in DOMAIN q THEN q[k] ELSE "undefined"

\* JSON.stringify leaves out a key whose value is undefined
stringifyQuestion(q) ==
    [k \in {j \in DOMAIN q : ~(j = "imageUrl" /\ q[j] = "undefined")} |-> q[k]]

stringifyValue(v) ==
    [v EXCEPT !.questions = [i \in DOMAIN v.questions |-> stringifyQuestion(v.questions[i])]]

JSONstringify(v) == [json |-> stringifyValue(v)]

JSONparse(text) == text.json

\* JavaScript truthiness of the questions field: null and undefined are falsy
TruthyValue(v) == v.kind \notin {"absent", "null"}

(***************************************************************************)
(* Test definitions used as request inputs                                 *)
(***************************************************************************)
QImage == [id |-> 1, type |-> "multiple-choice", prompt |-> "p1", imageUrl |-> "data:image/jpeg",
           options |-> <<"x", "y">>, correctIndex |-> 1, randomizeOptions |-> "true"]
QEssay == [id |-> 2, type |-> "essay", prompt |-> "p2"]
QNoImage == [id |-> 3, type |-> "multiple-answer", prompt |-> "p3", imageUrl |-> "undefined",
             options |-> <<"x", "y", "z">>, correctIndices |-> <<0, 2>>,
             randomizeOptions |-> "true"]

\* a 3-question definition with one image-bearing question
Def3 == Payload([randomizeQuestions |-> "true"], <<QImage, QEssay, QNoImage>>)
\* a 1-question definition with empty settings
Def1 == Payload(NoSettings, <<QNoImage>>)
\* the legacy shape: a bare Question[]
Legacy == BareArray(<<QEssay>>)

Definitions == {Def3, Def1}
Contents == Definitions \cup {Legacy, Absent}

(***************************************************************************)
(* The document store, as the function's fetch calls see it                *)
(***************************************************************************)
\* two editors' browsers
Clients == {"e1", "e2"}

\* what a fetch to the store can come back with: resp.ok, !resp.ok, or the call throws
StoreResults == {"ok", "rejected", "throws"}

\* listing with limit(1): the $id of the first document, 0 for null
existingDocId(listRes, d) == IF listRes = "ok" /\ d # <<>> THEN 1 ELSE 0

\* variant: the PATCH goes to the document listed last
updateDocumentLast(d, id, dataStr) == [d EXCEPT ![Len(d)] = dataStr]

\* PATCH of the document with that $id
updateDocument(d, id, dataStr) == [d EXCEPT ![id] = dataStr]

\* variant: a create under one well-known id, which replaces what is there
createDocumentFixedId(d, dataStr) == IF d = <<>> THEN <<dataStr>> ELSE [d EXCEPT ![1] = dataStr]

\* POST with documentId unique(): a new document at the end of the listing
createDocument(d, dataStr) == Append(d, dataStr)

(***************************************************************************)
(* functions/verify-access-code/src/main.js                                *)
(***************************************************************************)
Response(status, ok) ==
    [status |-> status, ok |-> ok, valid |-> "absent", role |-> "absent",
     error |-> "absent", saved |-> FALSE, questions |-> Absent]

ErrorResponse(status, msg) == [Response(status, FALSE) EXCEPT !.error = msg]

\* what a handler run did: its response, the store after it, whether it listed the
\* collection, and which write call it issued
Outcome(resp, d, probed, branch) ==
    [resp |-> resp, docs |-> d, probed |-> probed, branch |-> branch]

trimmedCode(code) == toUpperCase(trim(code))

isEditor(code) == Truthy(editorCode) /\ trimmedCode(code) = toUpperCase(trim(editorCode))

isStudent(code) == trimmedCode(code) = toUpperCase(trim(accessCode))

isAuthorized(code) == isEditor(code) \/ isStudent(code)

\* a load that hands out the document whatever became of the listing
loadDocumentUnlisted(listRes, d) ==
    IF d # <<>> THEN JSONparse(d[1]) ELSE Null

\* the body of the load: the first listed document parsed, null when the listing
\* fails, throws or is empty
loadDocument(listRes, d) ==
    IF listRes = "ok" /\ d # <<>> THEN JSONparse(d[1]) ELSE Null

\* variant: a load that answers any code
loadBranchOpen(code, listRes, d) ==
    IF ~apiKeySet
    THEN Outcome([Response(200, TRUE) EXCEPT !.questions = Null], d, FALSE, "none")
    ELSE Outcome([Response(200, TRUE) EXCEPT !.questions = loadDocument(listRes, d)],
                 d, TRUE, "none")

loadBranch(code, listRes, d) ==
    IF ~isAuthorized(code)
    THEN Outcome(ErrorResponse(403, "Unauthorized"), d, FALSE, "none")
    ELSE IF ~apiKeySet
    THEN Outcome([Response(200, TRUE) EXCEPT !.questions = Null], d, FALSE, "none")
    ELSE Outcome([Response(200, TRUE) EXCEPT !.questions = loadDocument(listRes, d)],
                 d, TRUE, "none")

\* the PATCH or POST of a save and the response that follows it
writeDocument(id, dataStr, writeRes, d) ==
    LET branch == IF id # 0 THEN "update" ELSE "create" IN
    IF writeRes = "throws"
    THEN Outcome(ErrorResponse(500, "Internal server error"), d, TRUE, branch)
    ELSE IF writeRes = "rejected"
    THEN Outcome(ErrorResponse(500, "Failed to save"), d, TRUE, branch)
    ELSE Outcome([Response(200, TRUE) EXCEPT !.saved = TRUE],
                 IF id # 0 THEN updateDocument(d, id, dataStr) ELSE createDocument(d, dataStr),
                 TRUE, branch)

\* variant: a save gate that admits every valid code
saveGateAnyRole(code, questions) ==
    IF ~isAuthorized(code) THEN ErrorResponse(403, "Unauthorized")
    ELSE IF ~TruthyValue(questions) THEN ErrorResponse(400, "No questions provided")
    ELSE IF ~apiKeySet THEN ErrorResponse(500, "Server configuration error")
    ELSE Response(0, TRUE)

\* the checks of the save branch that come before its first fetch; "pass" lets it go on
saveGate(code, questions) ==
    IF ~isEditor(code) THEN ErrorResponse(403, "Unauthorized")
    ELSE IF ~TruthyValue(questions) THEN ErrorResponse(400, "No questions provided")
    ELSE IF ~apiKeySet THEN ErrorResponse(500, "Server configuration error")
    ELSE Response(0, TRUE)

\* a save request in flight: where it stands, what it carries, what its probe found
Slot(pc, resp, questions, id, listRes, branch) ==
    [pc |-> pc, resp |-> resp, questions |-> questions, id |-> id, list |-> listRes,
     branch |-> branch, overlapped |-> FALSE]

IdleSlot == Slot("idle", Response(0, FALSE), Absent, 0, "none", "none")

\* the save branch up to and including its existence probe
saveProbe(code, questions, listRes, d) ==
    LET gate == saveGate(code, questions) IN
    IF gate.status # 0 THEN Slot("done", gate, Absent, 0, "none", "none")
    ELSE IF listRes = "throws"
    THEN Slot("done", ErrorResponse(500, "Internal server error"), Absent, 0, listRes, "none")
    ELSE Slot("probed", Response(0, FALSE), questions, existingDocId(listRes, d), listRes, "none")

\* the whole save branch: the probe, then the write it decides on
saveBranch(code, questions, listRes, writeRes, d) ==
    LET probe == saveProbe(code, questions, listRes, d) IN
    IF probe.pc = "done" THEN Outcome(probe.resp, d, probe.list # "none", "none")
    ELSE writeDocument(probe.id, JSONstringify(probe.questions), writeRes, d)

\* variant: role resolution that tests the student secret first
verifyBranchStudentFirst(code) ==
    IF isStudent(code)
    THEN [Response(200, TRUE) EXCEPT !.valid = "true", !.role = "student"]
    ELSE IF isEditor(code)
    THEN [Response(200, TRUE) EXCEPT !.valid = "true", !.role = "editor"]
    ELSE [Response(200, TRUE) EXCEPT !.valid = "false"]

verifyBranch(code) ==
    IF isEditor(code)
    THEN [Response(200, TRUE) EXCEPT !.valid = "true", !.role = "editor"]
    ELSE IF isStudent(code)
    THEN [Response(200, TRUE) EXCEPT !.valid = "true", !.role = "student"]
    ELSE [Response(200, TRUE) EXCEPT !.valid = "false"]

\* the checks every POST passes before its action is looked at
\* the checks without the one on ACCESS_CODE
codeGateNoSecretCheck(rq) ==
    IF rq.method # "POST" THEN ErrorResponse(405, "Method not allowed")
    ELSE IF ~Truthy(rq.code)
    THEN [ErrorResponse(400, "No code provided") EXCEPT !.valid = "false"]
    ELSE Response(0, TRUE)

codeGate(rq) ==
    IF rq.method # "POST" THEN ErrorResponse(405, "Method not allowed")
    ELSE IF ~Truthy(rq.code)
    THEN [ErrorResponse(400, "No code provided") EXCEPT !.valid = "false"]
    ELSE IF ~Truthy(accessCode) THEN ErrorResponse(500, "Server configuration error")
    ELSE Response(0, TRUE)

verifyAccessCode(rq, listRes, writeRes, d) ==
    LET gate == codeGate(rq) IN
    IF gate.status # 0 THEN Outcome(gate, d, FALSE, "none")
    ELSE IF rq.action = "load-questions" THEN loadBranch(rq.code, listRes, d)
    ELSE IF rq.action = "save-questions"
    THEN saveBranch(rq.code, rq.questions, listRes, writeRes, d)
    ELSE Outcome(verifyBranch(rq.code), d, FALSE, "none")

\* the body the client sends: JSON.stringify({ code, action, questions }) parsed by the function
requestBody(method, code, action, questions) ==
    [method |-> method, code |-> code, action |-> action,
     questions |-> JSONparse(JSONstringify(questions))]

(***************************************************************************)
(* functions/manage-questions/src/main.js: the function that reads the     *)
(* document on GET and writes it on POST                                   *)
(***************************************************************************)
\* GET: a listing that is not ok answers null, as does an empty one; a fetch that
\* throws reaches the outer catch
manageGet(listRes, d) ==
    IF listRes = "throws"
    THEN Outcome(ErrorResponse(500, "Internal server error"), d, TRUE, "none")
    ELSE Outcome([Response(200, TRUE) EXCEPT !.questions = loadDocument(listRes, d)],
                 d, TRUE, "none")

\* POST: the questions field is all the body is asked for
managePost(questions, listRes, writeRes, d) ==
    IF ~TruthyValue(questions)
    THEN Outcome(ErrorResponse(400, "No questions provided"), d, FALSE, "none")
    ELSE IF listRes = "throws"
    THEN Outcome(ErrorResponse(500, "Internal server error"), d, TRUE, "none")
    ELSE LET id == existingDocId(listRes, d)
             branch == IF id # 0 THEN "update" ELSE "create" IN
         IF writeRes = "throws"
         THEN Outcome(ErrorResponse(500, "Internal server error"), d, TRUE, branch)
         ELSE IF writeRes = "rejected"
         THEN Outcome(ErrorResponse(500, IF id # 0 THEN "Failed to update questions"
                                                   ELSE "Failed to create questions"),
                      d, TRUE, branch)
         ELSE Outcome(Response(200, TRUE),
                      IF id # 0 THEN updateDocument(d, id, JSONstringify(questions))
                                ELSE createDocument(d, JSONstringify(questions)),
                      TRUE, branch)

\* the handler: the store credential, then the method; the body's code is never read
manageQuestions(rq, listRes, writeRes, d) ==
    IF ~apiKeySet
    THEN Outcome(ErrorResponse(500, "Server configuration error"), d, FALSE, "none")
    ELSE IF rq.method = "GET" THEN manageGet(listRes, d)
    ELSE IF rq.method = "POST" THEN managePost(rq.questions, listRes, writeRes, d)
    ELSE Outcome(ErrorResponse(405, "Method not allowed"), d, FALSE, "none")

(***************************************************************************)
(* The verify-access-code function as the build guide gives it             *)
(***************************************************************************)
\* a fetch made with no X-Appwrite-Key is turned away by the store
keyed(res) == IF ~apiKeySet /\ res = "ok" THEN "rejected" ELSE res

\* listDocs: the first document, 0 for null
listDocs(listRes, d) == IF keyed(listRes) = "ok" /\ d # <<>> THEN 1 ELSE 0

\* the save branch: no look at what the PATCH or POST came back with
guideSave(code, questions, listRes, writeRes, d) ==
    IF ~isEditor(code) THEN Outcome(ErrorResponse(403, "Unauthorized"), d, FALSE, "none")
    ELSE IF listRes = "throws"
    THEN Outcome(ErrorResponse(500, "Internal error"), d, TRUE, "none")
    ELSE LET doc == listDocs(listRes, d)
             dataStr == JSONstringify(questions)
         IN  IF writeRes = "throws"
             THEN Outcome(ErrorResponse(500, "Internal error"), d, TRUE,
                          IF doc # 0 THEN "update" ELSE "create")
             ELSE Outcome([Response(200, TRUE) EXCEPT !.saved = TRUE],
                          IF keyed(writeRes) # "ok" THEN d
                          ELSE IF doc # 0 THEN updateDocument(d, doc, dataStr)
                          ELSE createDocument(d, dataStr),
                          TRUE, IF doc # 0 THEN "update" ELSE "create")

\* the default branch: verify, and preload with one load attempt
guideVerify(code, listRes, d) ==
    IF isEditor(code) \/ isStudent(code)
    THEN Outcome([Response(200, TRUE) EXCEPT
                     !.valid = "true",
                     !.role = IF isEditor(code) THEN "editor" ELSE "student",
                     !.questions = IF apiKeySet /\ listRes # "throws" /\ listDocs(listRes, d) # 0
                                   THEN JSONparse(d[1]) ELSE Null],
                 d, apiKeySet, "none")
    ELSE Outcome([Response(200, TRUE) EXCEPT !.valid = "false"], d, FALSE, "none")

guideFunction(rq, listRes, writeRes, d) ==
    IF rq.method # "POST"
    THEN Outcome(ErrorResponse(405, "Method not allowed"), d, FALSE, "none")
    ELSE IF ~Truthy(rq.code)
    THEN Outcome([ErrorResponse(400, "No code provided") EXCEPT !.valid = "false"],
                 d, FALSE, "none")
    ELSE IF accessCode = Undefined
    THEN Outcome(ErrorResponse(500, "Internal error"), d, FALSE, "none")
    ELSE IF rq.action = "save-questions"
    THEN guideSave(rq.code, rq.questions, listRes, writeRes, d)
    ELSE guideVerify(rq.code, listRes, d)

\* the function that is deployed
serve(rq, listRes, writeRes, d) ==
    IF version = "main" THEN verifyAccessCode(rq, listRes, writeRes, d)
    ELSE guideFunction(rq, listRes, writeRes, d)

(***************************************************************************)
(* The browser: AccessCodeWall, App, TestPage and TestEditor               *)
(***************************************************************************)
maxRetries == 3
MAX_RETRIES == 5

\* the wall before anything is typed; sent is the set of actions and functions the
\* browser has called since the page was opened; knew is the definition whose save had been
\* acknowledged, and listed the store's answer to a listing, when the code was verified
AtWall ==
    [screen |-> "wall", error |-> "none", role |-> "none", code |-> <<>>,
     payload |-> Null, mounted |-> FALSE, loading |-> FALSE, loadError |-> FALSE,
     questions |-> <<>>, loads |-> 0, knew |-> Absent, listed |-> "none",
     sent |-> {}, submitState |-> "idle", hasName |-> FALSE, nameError |-> FALSE]

\* App: onUnlock sets auth, and the role picks the component
onUnlock(role, code, payload) ==
    [AtWall EXCEPT !.screen = IF role = "editor" THEN "editor" ELSE "page",
                   !.role = role, !.code = code, !.payload = payload, !.loading = TRUE]

\* AccessCodeWall.handleSubmit once an attempt has delivered a response body
handleSubmit(code, parsed) ==
    IF parsed.valid = "true"
    THEN onUnlock(IF parsed.role # "absent" THEN parsed.role ELSE "student", code,
                  IF TruthyValue(parsed.questions) THEN parsed.questions ELSE Null)
    ELSE [AtWall EXCEPT !.code = code, !.error = "Invalid access code. Please try again."]

\* the orders a list can come out of sort(() => Math.random() - 0.5) in
shuffle(list) == {[i \in DOMAIN list |-> list[f[i]]] : f \in Permutations(DOMAIN list)}

\* step 2 of processPayload on one question: a copy with the options in another
\* order, every other field as it was
shuffleOptions(q) ==
    IF q.type # "essay" /\ Get(q, "randomizeOptions") = "true"
    THEN {[q EXCEPT !.options = o] : o \in shuffle(q.options)}
    ELSE {q}

\* the lists processPayload can pass to setQuestions
processed(payload) ==
    UNION {{l \in [DOMAIN qs -> UNION {shuffleOptions(qs[i]) : i \in DOMAIN qs}] :
               \A i \in DOMAIN qs : l[i] \in shuffleOptions(qs[i])} :
           qs \in IF payload.settings.randomizeQuestions = "true"
                  THEN shuffle(payload.questions) ELSE {payload.questions}}

\* variant: the questions are sorted in the payload's own array
processPayloadInPlace(payload) ==
    {[payload |-> [payload EXCEPT !.questions = qs], questions |-> qs] :
        qs \in processed(payload)}

\* TestPage.processPayload: the payload as the call leaves it, and the question list
\* it sets; the sorts run on copies ([...payload.questions], { ...q }, [...options])
processPayload(payload) ==
    {[payload |-> payload, questions |-> qs] : qs \in processed(payload)}

(***************************************************************************)
(* The retrying callers of functions.createExecution: executeWithRetry     *)
(* under loadQuestions and saveQuestions, the wall's handleSubmit, and     *)
(* sendResults                                                             *)
(***************************************************************************)
\* what one createExecution can bring: the promise rejects; the execution's status
\* is 'failed', with no body or with an error text; or it completed, with no body,
\* a body that is not JSON, or a JSON body whose ok/valid is true or false
GatewayResults == {"throws", "failed", "failedText", "empty", "text", "okTrue", "okFalse"}

statusOf(r) ==
    IF r = "throws" THEN "throws"
    ELSE IF r \in {"failed", "failedText"} THEN "failed" ELSE "completed"

\* result.responseBody
responseBodyOf(r) ==
    IF r \in {"failed", "empty"} THEN "empty"
    ELSE IF r = "failedText" THEN "text" ELSE r

Operations == {"load", "save", "verify", "verifyGuide", "deliver"}

\* delays counts the setTimeout waits between attempts
\* and accepted the attempts in which the mail server took the message
IdleCall == [op |-> "none", pc |-> "idle", results |-> <<>>, retryCount |-> 0,
             delays |-> 0, outcome |-> "none", accepted |-> 0]

\* the call ends: what its caller sees
Settle(c, seen, outcome) ==
    [c EXCEPT !.pc = "done", !.results = seen, !.outcome = outcome]

\* loadQuestions on what executeWithRetry returned
loadQuestionsEnd(body) ==
    IF body = "okTrue" THEN "returned" ELSE "unreachable"

\* saveQuestions on what executeWithRetry returned
saveQuestionsEnd(body) ==
    IF body = "empty" THEN "unreachable"
    ELSE IF body = "text" THEN "syntaxError"
    ELSE IF body = "okFalse" THEN "appError" ELSE "returned"

\* one pass of executeWithRetry's for loop, and its caller once it returns
executeWithRetry(c, r) ==
    LET seen == Append(c.results, r)
        attempt == Len(seen)
        end(body) == IF c.op = "load" THEN loadQuestionsEnd(body)
                     ELSE saveQuestionsEnd(body)
    IN  IF statusOf(r) = "throws"
        THEN IF attempt < MAX_RETRIES
             THEN [c EXCEPT !.results = seen, !.delays = c.delays + 1]
             ELSE Settle(c, seen, end("empty"))
        ELSE Settle(c, seen, end(responseBodyOf(r)))

\* a catch block that blames the code once the attempts are used up
catchAsInvalid(c, seen, outcome) ==
    IF c.retryCount + 1 >= maxRetries
    THEN [Settle(c, seen, "invalid") EXCEPT !.retryCount = c.retryCount + 1]
    ELSE [c EXCEPT !.results = seen, !.retryCount = c.retryCount + 1,
                   !.delays = c.delays + 1]

\* the catch block of the wall's and of sendResults' while loop
catch(c, seen, outcome) ==
    IF c.retryCount + 1 >= maxRetries
    THEN [Settle(c, seen, outcome) EXCEPT !.retryCount = c.retryCount + 1]
    ELSE [c EXCEPT !.results = seen, !.retryCount = c.retryCount + 1,
                   !.delays = c.delays + 1]

\* the wall's loop, were a parsed valid:false thrown like the other failures
handleSubmitRetryInvalid(c, r) ==
    LET seen == Append(c.results, r) IN
    IF statusOf(r) = "completed" /\ responseBodyOf(r) = "okTrue"
    THEN Settle(c, seen, "unlocked")
    ELSE catch(c, seen, "unreachable")

\* one pass of the while loop of AccessCodeWall.handleSubmit, and what follows it
handleSubmitPass(c, r) ==
    LET seen == Append(c.results, r) IN
    IF statusOf(r) = "completed" /\ responseBodyOf(r) \in {"okTrue", "okFalse"}
    THEN Settle(c, seen, IF responseBodyOf(r) = "okTrue" THEN "unlocked" ELSE "invalid")
    ELSE catch(c, seen, "unreachable")

\* the execution the gateway reports for a response of the function: a 5xx answer
\* is reported with the status 'failed'
gatewayResult(resp) ==
    IF resp.status >= 500 THEN "failedText"
    ELSE IF resp.valid = "true" THEN "okTrue" ELSE "okFalse"

\* how a submission at the wall ends when every attempt is answered with resp
wallOutcome(resp) ==
    LET r == gatewayResult(resp)
        pass(c) == IF c.pc = "done" THEN c ELSE handleSubmitPass(c, r)
    IN  pass(pass(pass([IdleCall EXCEPT !.op = "verify", !.pc = "running"]))).outcome

\* the same loop in the build guide's wall: an empty body neither succeeds nor throws
handleSubmitGuide(c, r) ==
    LET seen == Append(c.results, r) IN
    IF statusOf(r) = "completed" /\ responseBodyOf(r) = "empty"
    THEN [c EXCEPT !.results = seen]
    ELSE handleSubmitPass(c, r)

\* one pass of the while loop of sendResults
sendResults(c, r) ==
    LET seen == Append(c.results, r) IN
    IF statusOf(r) = "completed" /\ responseBodyOf(r) # "okFalse"
    THEN Settle(c, seen, "returned")
    ELSE catch(c, seen, IF statusOf(r) = "completed" THEN "appError" ELSE "unreachable")

(***************************************************************************)
(* services/sendResults: formatResults grades the answers against the      *)
(* definition it loads                                                     *)
(***************************************************************************)
\* texts an option can carry and a student can submit
OptionTexts == {"A", "B", "", "(no answer)"}

\* no run yet, and no question under the loop. lines holds, for each question written
\* to the report, the mark of its first line; loaded is the question as the load of
\* formatResults brought it and held the copy of it in the browser's state. submitted is answers[q.id]: <<>> for
\* undefined, <<s>> for a string, the selected strings for an array; correctOption is
\* options[correctIndex], an entry of correctOptions is options[i]: <<>> for undefined
IdleReport ==
    [pc |-> "idle", type |-> "none", options |-> <<>>, correctIndex |-> 0,
     correctIndices |-> <<>>, submitted |-> <<>>, answer |-> "", correctOption |-> <<>>,
     correctOptions |-> <<>>, isCorrect |-> FALSE,
     mcCorrect |-> 0, mcTotal |-> 0, graded |-> 0, lines |-> <<>>,
     loaded |-> <<>>, held |-> <<>>]

\* options[i] for a 0-based i
optionAt(options, i) == IF i + 1 \in DOMAIN options THEN <<options[i + 1]>> ELSE <<>>

\* variant: the essay branch counts the question in the total
formatResultsEssayCounted(rep, type, options, correctIndex, correctIndices, submitted) ==
    LET correctOption == optionAt(options, correctIndex)
        correctOptions == [k \in DOMAIN correctIndices |-> optionAt(options, correctIndices[k])]
        answer == IF submitted = <<>> \/ submitted[1] = "" THEN "(no answer)" ELSE submitted[1]
        isCorrect == IF type = "multiple-choice" THEN <<answer>> = correctOption
                     ELSE /\ Len(submitted) = Len(correctOptions)
                          /\ \A k \in DOMAIN correctOptions :
                                 /\ correctOptions[k] # <<>>
                                 /\ \E j \in DOMAIN submitted : submitted[j] = correctOptions[k][1]
    IN  [rep EXCEPT !.pc = "graded", !.type = type, !.options = options,
                    !.correctIndex = correctIndex, !.correctIndices = correctIndices,
                    !.submitted = submitted, !.graded = rep.graded + 1,
                    !.isCorrect = type # "essay" /\ isCorrect,
                    !.mcTotal = rep.mcTotal + 1,
                    !.mcCorrect = rep.mcCorrect + IF type # "essay" /\ isCorrect THEN 1 ELSE 0,
                    !.answer = IF type = "multiple-answer" THEN "" ELSE answer,
                    !.correctOption = IF type = "multiple-choice" THEN correctOption ELSE <<>>,
                    !.correctOptions = IF type = "multiple-answer" THEN correctOptions ELSE <<>>,
                    !.lines = Append(rep.lines, IF type = "essay" THEN "Essay"
                                                ELSE IF isCorrect THEN "CORRECT"
                                                ELSE "INCORRECT")]

\* one pass of the for loop of formatResults over a question and answers[q.id]
formatResults(rep, type, options, correctIndex, correctIndices, submitted) ==
    LET answer == IF submitted = <<>> \/ submitted[1] = "" THEN "(no answer)"
                  ELSE submitted[1]
        correctOption == optionAt(options, correctIndex)
        correctOptions == [k \in DOMAIN correctIndices |-> optionAt(options, correctIndices[k])]
        includes(o) == o # <<>> /\ \E j \in DOMAIN submitted : submitted[j] = o[1]
        isCorrect == IF type = "multiple-choice" THEN <<answer>> = correctOption
                     ELSE /\ Len(submitted) = Len(correctOptions)
                          /\ \A k \in DOMAIN correctOptions : includes(correctOptions[k])
        seen == [rep EXCEPT !.pc = "graded", !.type = type, !.options = options,
                            !.correctIndex = correctIndex,
                            !.correctIndices = correctIndices, !.submitted = submitted,
                            !.graded = rep.graded + 1]
        counted == [seen EXCEPT !.isCorrect = isCorrect,
                                !.mcTotal = rep.mcTotal + 1,
                                !.mcCorrect = rep.mcCorrect + IF isCorrect THEN 1 ELSE 0,
                                !.lines = Append(rep.lines, IF isCorrect THEN "CORRECT"
                                                            ELSE "INCORRECT")]
    IN  IF type = "multiple-choice"
        THEN [counted EXCEPT !.answer = answer, !.correctOption = correctOption]
        ELSE IF type = "multiple-answer"
        THEN [counted EXCEPT !.correctOptions = correctOptions]
        ELSE [seen EXCEPT !.answer = answer, !.lines = Append(rep.lines, "Essay")]

\* variant: the marks come from the copy of the question the browser holds
formattedResultsHeld(rep, type, options, correctIndex, correctIndices, held, submitted) ==
    [formatResults(rep, type, held[1], held[2], held[3], submitted) EXCEPT
        !.loaded = <<options, correctIndex, correctIndices>>, !.held = held]

\* sendResults calls formatResults with the answers, the name and the code: the
\* question graded is the one loadQuestions(code) returned, whatever the browser holds
formattedResults(rep, type, options, correctIndex, correctIndices, held, submitted) ==
    [formatResults(rep, type, options, correctIndex, correctIndices, submitted) EXCEPT
        !.loaded = <<options, correctIndex, correctIndices>>, !.held = held]

(***************************************************************************)
(* TestEditor: the handlers that edit the questions state                  *)
(***************************************************************************)
QuestionTypes == {"multiple-choice", "multiple-answer", "essay"}

\* what an editor types into an option or a prompt
TypedTexts == {"A"}

createBlankQuestion(id, qType) ==
    IF qType = "essay" THEN [id |-> id, type |-> "essay", prompt |-> ""]
    ELSE IF qType = "multiple-answer"
    THEN [id |-> id, type |-> "multiple-answer", prompt |-> "", options |-> <<"", "">>,
          correctIndices |-> <<0>>]
    ELSE [id |-> id, type |-> "multiple-choice", prompt |-> "", options |-> <<"", "">>,
          correctIndex |-> 0]

\* the built-in question list (50 generated questions, ids 1..50, the first a
\* multiple-choice question with correctIndex 0), cut down to one question with two
\* of its four options
defaultQuestions ==
    <<[id |-> 1, type |-> "multiple-choice", prompt |-> "default",
       options |-> <<"x", "y">>, correctIndex |-> 0]>>

\* the editor once its questions are set; returned is the handler that was called
\* last if it returned before setting any state, removed the oIndex the last handler
\* took an option out at (<<>> if it took none out), deleted the ids of the questions
\* deleteQuestion has removed since
Loaded(questions) ==
    [questions |-> questions, returned |-> "none", removed |-> <<>>, deleted |-> {}]

\* setQuestions(prev => prev.map((q, i) => i === index ? updated : q)), index 0-based
updateQuestion(index, updated) ==
    [i \in DOMAIN editor.questions |-> IF i = index + 1 THEN updated ELSE editor.questions[i]]

\* the handler ran to its setQuestions and the questions state is now qs
Handled(qs) ==
    editor' = [editor EXCEPT !.returned = "none", !.removed = <<>>, !.questions = qs]

\* deleteOption took the option at oIndex out and the questions state is now qs
Removed(oIndex, qs) ==
    editor' = [editor EXCEPT !.returned = "none", !.removed = <<oIndex>>, !.questions = qs]

\* the handler returned at its guard
Returned(op) == editor' = [editor EXCEPT !.returned = op, !.removed = <<>>]

\* the handlers that edit a question are called on the first question of the list
HasOptions == editor.questions[1].type # "essay"

changeType ==
    /\ \E newType \in QuestionTypes :
           LET q == editor.questions[1]
               blank == createBlankQuestion(q.id, newType)
               converted == IF newType # "essay" /\ q.type # "essay"
                            THEN [blank EXCEPT !.prompt = q.prompt, !.options = q.options]
                            ELSE [blank EXCEPT !.prompt = q.prompt]
           IN  IF q.type = newType THEN Returned("changeType")
               ELSE Handled(updateQuestion(0, converted))
    /\ UNCHANGED <<envVars, docs, last, lastAck, inflight, client, call, report>>

updatePrompt ==
    /\ \E prompt \in TypedTexts :
           Handled(updateQuestion(0, [editor.questions[1] EXCEPT !.prompt = prompt]))
    /\ UNCHANGED <<envVars, docs, last, lastAck, inflight, client, call, report>>

updateOption ==
    /\ HasOptions
    /\ \E oIndex \in 0..(Len(editor.questions[1].options) - 1), value \in TypedTexts :
           Handled(updateQuestion(0, [editor.questions[1] EXCEPT
                                         !.options[oIndex + 1] = value]))
    /\ UNCHANGED <<envVars, docs, last, lastAck, inflight, client, call, report>>

addOption ==
    /\ HasOptions
    /\ Len(editor.questions[1].options) <= MaxOptions
    /\ Handled(updateQuestion(0, [editor.questions[1] EXCEPT !.options = Append(@, "")]))
    /\ UNCHANGED <<envVars, docs, last, lastAck, inflight, client, call, report>>

\* array.filter((_, i) => i !== oIndex), oIndex 0-based
without(list, oIndex) ==
    [i \in 1..(Len(list) - 1) |-> IF i <= oIndex THEN list[i] ELSE list[i + 1]]

\* variant: the option is removed and the correct index is left as it was
deleteOptionKeepIndex ==
    /\ HasOptions
    /\ \E oIndex \in 0..(Len(editor.questions[1].options) - 1) :
           LET q == editor.questions[1]
           IN  IF Len(q.options) <= 2 THEN Returned("deleteOption")
               ELSE Removed(oIndex, updateQuestion(0, [q EXCEPT
                                                !.options = without(q.options, oIndex)]))
    /\ UNCHANGED <<envVars, docs, last, lastAck, inflight, client, call, report>>

\* variant: the option is removed and the first option becomes the correct one
deleteOptionFirstCorrect ==
    /\ HasOptions
    /\ \E oIndex \in 0..(Len(editor.questions[1].options) - 1) :
           LET q == editor.questions[1]
               newOpts == without(q.options, oIndex)
           IN  IF Len(q.options) <= 2 THEN Returned("deleteOption")
               ELSE IF q.type = "multiple-choice"
               THEN Removed(oIndex, updateQuestion(0, [q EXCEPT !.options = newOpts,
                                                                !.correctIndex = 0]))
               ELSE Removed(oIndex, updateQuestion(0, [q EXCEPT !.options = newOpts,
                                                                !.correctIndices = <<0>>]))
    /\ UNCHANGED <<envVars, docs, last, lastAck, inflight, client, call, report>>

deleteOption ==
    /\ HasOptions
    /\ \E oIndex \in 0..(Len(editor.questions[1].options) - 1) :
           LET q == editor.questions[1]
               newOpts == without(q.options, oIndex)
               kept == SelectSeq(q.correctIndices, LAMBDA ci : ci # oIndex)
               newCorrectIndices == [k \in DOMAIN kept |->
                                        IF kept[k] > oIndex THEN kept[k] - 1 ELSE kept[k]]
           IN  IF Len(q.options) <= 2 THEN Returned("deleteOption")
               ELSE IF q.type = "multiple-choice"
               THEN Removed(oIndex, updateQuestion(0, [q EXCEPT
                                !.options = newOpts,
                                !.correctIndex = IF oIndex = q.correctIndex THEN 0
                                                 ELSE IF oIndex < q.correctIndex
                                                 THEN q.correctIndex - 1
                                                 ELSE q.correctIndex]))
               ELSE Removed(oIndex, updateQuestion(0, [q EXCEPT
                                !.options = newOpts,
                                !.correctIndices = IF newCorrectIndices # <<>>
                                                   THEN newCorrectIndices ELSE <<0>>]))
    /\ UNCHANGED <<envVars, docs, last, lastAck, inflight, client, call, report>>

setCorrectIndex ==
    /\ editor.questions[1].type = "multiple-choice"
    /\ \E oIndex \in 0..(Len(editor.questions[1].options) - 1) :
           Handled(updateQuestion(0, [editor.questions[1] EXCEPT !.correctIndex = oIndex]))
    /\ UNCHANGED <<envVars, docs, last, lastAck, inflight, client, call, report>>

\* [...indices, oIndex].sort((a, b) => a - b)
sortedWith(indices, oIndex) ==
    LET below == SelectSeq(indices, LAMBDA ci : ci <= oIndex)
        above == SelectSeq(indices, LAMBDA ci : ci > oIndex)
    IN  below \o <<oIndex>> \o above

toggleCorrectIndex ==
    /\ editor.questions[1].type = "multiple-answer"
    /\ \E oIndex \in 0..(Len(editor.questions[1].options) - 1) :
           LET q == editor.questions[1]
               has == \E k \in DOMAIN q.correctIndices : q.correctIndices[k] = oIndex
               removed == SelectSeq(q.correctIndices, LAMBDA ci : ci # oIndex)
           IN  IF has /\ removed = <<>> THEN Returned("toggleCorrectIndex")
               ELSE Handled(updateQuestion(0, [q EXCEPT
                                !.correctIndices = IF has THEN removed
                                                   ELSE sortedWith(q.correctIndices, oIndex)]))
    /\ UNCHANGED <<envVars, docs, last, lastAck, inflight, client, call, report>>

\* questions.reduce((max, q) => Math.max(max, q.id), 0)
maxId ==
    IF editor.questions = <<>> THEN 0
    ELSE CHOOSE m \in {editor.questions[i].id : i \in DOMAIN editor.questions} :
             \A i \in DOMAIN editor.questions : editor.questions[i].id <= m

\* variant: the new id is the length of the list plus one
addQuestionByLength ==
    /\ Len(editor.questions) < MaxQuestions
    /\ maxId <= MaxQuestions
    /\ Handled(Append(editor.questions,
                      createBlankQuestion(Len(editor.questions) + 1, "multiple-choice")))
    /\ UNCHANGED <<envVars, docs, last, lastAck, inflight, client, call, report>>

addQuestion ==
    /\ Len(editor.questions) < MaxQuestions
    /\ maxId <= MaxQuestions
    /\ Handled(Append(editor.questions, createBlankQuestion(maxId + 1, "multiple-choice")))
    /\ UNCHANGED <<envVars, docs, last, lastAck, inflight, client, call, report>>

\* variant: the question is removed whatever the length of the list
deleteQuestionUnguarded ==
    /\ \E index \in 0..(Len(editor.questions) - 1) :
           editor' = [editor EXCEPT
                         !.returned = "none", !.removed = <<>>,
                         !.questions = without(editor.questions, index),
                         !.deleted = @ \cup {editor.questions[index + 1].id}]
    /\ UNCHANGED <<envVars, docs, last, lastAck, inflight, client, call, report>>

deleteQuestion ==
    /\ \E index \in 0..(Len(editor.questions) - 1) :
           editor' = IF Len(editor.questions) <= 1
                     THEN [editor EXCEPT !.returned = "deleteQuestion", !.removed = <<>>]
                     ELSE [editor EXCEPT
                              !.returned = "none", !.removed = <<>>,
                              !.questions = without(editor.questions, index),
                              !.deleted = @ \cup {editor.questions[index + 1].id}]
    /\ UNCHANGED <<envVars, docs, last, lastAck, inflight, client, call, report>>

\* setQuestions([...defaultQuestions]): a fresh list, nothing deleted from it yet
handleReset ==
    /\ editor' = Loaded(defaultQuestions)
    /\ UNCHANGED <<envVars, docs, last, lastAck, inflight, client, call, report>>

(***************************************************************************)
(* Sequential requests to verify-access-code: each handler runs to its     *)
(* response before the next request starts                                 *)
(***************************************************************************)
NoRequest == [method |-> "none", code |-> <<>>, action |-> "none", questions |-> Absent]

NoLast ==
    [fn |-> "none", rq |-> NoRequest, sent |-> Absent, list |-> "none", write |-> "none",
     resp |-> Response(0, FALSE), probed |-> FALSE, branch |-> "none"]

\* one request: sent is the value the client put in the questions field
Handle(method, code, action, sent, listRes, writeRes) ==
    \E out \in {verifyAccessCode(requestBody(method, code, action, sent),
                                 listRes, writeRes, docs)} :
        /\ Len(out.docs) <= MaxDocs
        /\ docs' = out.docs
        /\ last' = [fn |-> "verify-access-code",
                    rq |-> requestBody(method, code, action, sent), sent |-> sent,
                    list |-> IF out.probed THEN listRes ELSE "none",
                    write |-> IF out.branch # "none" THEN writeRes ELSE "none",
                    resp |-> out.resp, probed |-> out.probed, branch |-> out.branch]
        /\ lastAck' = IF out.resp.saved THEN sent ELSE lastAck
        /\ UNCHANGED <<envVars, editor, inflight, client, call, report>>

\* whether the request gets as far as listing the collection
Lists(method, code, action, sent) ==
    \E out \in {verifyAccessCode(requestBody(method, code, action, sent), "ok", "ok", docs)} :
        out.probed

\* the codes clients submit: none, the student's, variants in case and spacing, a wrong one
ReqCodes == {<<>>, <<"a">>, <<"A", " ">>, <<"a", "A">>, <<" ">>}

VerifyRequest ==
    \E code \in ReqCodes : Handle("POST", code, "verify", Absent, "ok", "ok")

LoadRequest ==
    \E code \in ReqCodes :
        \E listRes \in IF Lists("POST", code, "load-questions", Absent) THEN StoreResults ELSE {"ok"} :
            Handle("POST", code, "load-questions", Absent, listRes, "ok")

SaveRequest ==
    \E code \in ReqCodes, sent \in Contents :
        \E listRes \in IF Lists("POST", code, "save-questions", sent) THEN StoreResults ELSE {"ok"} :
            \E writeRes \in IF Lists("POST", code, "save-questions", sent) /\ listRes # "throws"
                            THEN StoreResults ELSE {"ok"} :
                Handle("POST", code, "save-questions", sent, listRes, writeRes)

GetRequest == Handle("GET", <<>>, "verify", Absent, "ok", "ok")

\* deployments: the student secret, the editor secret, the store credential
AccessSecrets == {Undefined, <<"a">>}
EditorSecrets == {Undefined, <<" ", "A">>, <<"a", "a">>}

Init ==
    /\ accessCode \in AccessSecrets
    /\ editorCode \in EditorSecrets
    /\ apiKeySet \in BOOLEAN
    /\ version = "main"
    /\ docs = <<>>
    /\ last = NoLast
    /\ lastAck = Absent
    /\ inflight = [c \in Clients |-> IdleSlot]
    /\ client = AtWall
    /\ call = IdleCall
    /\ report = IdleReport
    /\ editor = Loaded(defaultQuestions)

Next == VerifyRequest \/ LoadRequest \/ SaveRequest \/ GetRequest

vars == <<accessCode, editorCode, apiKeySet, version, docs, last, lastAck, inflight, client, call, report, editor>>

Spec == Init /\ [][Next]_vars

(***************************************************************************)
(* Both deployed functions on one collection: saves through               *)
(* verify-access-code, and requests to manage-questions from any caller    *)
(***************************************************************************)
\* one request to manage-questions; the caller may put a code in the body
Manage(method, code, sent, listRes, writeRes) ==
    \E out \in {manageQuestions(requestBody(method, code, "none", sent),
                                listRes, writeRes, docs)} :
        /\ Len(out.docs) <= MaxDocs
        /\ docs' = out.docs
        /\ last' = [fn |-> "manage-questions",
                    rq |-> requestBody(method, code, "none", sent), sent |-> sent,
                    list |-> IF out.probed THEN listRes ELSE "none",
                    write |-> IF out.branch # "none" THEN writeRes ELSE "none",
                    resp |-> out.resp, probed |-> out.probed, branch |-> out.branch]
        /\ UNCHANGED <<envVars, lastAck, editor, inflight, client, call, report>>

\* what callers of manage-questions put in the code field: nothing, or a wrong code
ManageCodes == {<<>>, <<" ">>}

ManageGet ==
    \E code \in ManageCodes, listRes \in StoreResults :
        Manage("GET", code, Absent, listRes, "ok")

ManagePost ==
    \E code \in ManageCodes, sent \in Contents, listRes \in StoreResults :
        \E writeRes \in IF TruthyValue(sent) /\ listRes # "throws" THEN StoreResults ELSE {"ok"} :
            Manage("POST", code, sent, listRes, writeRes)

ManageOther == \E code \in ManageCodes : Manage("DELETE", code, Absent, "ok", "ok")

NextManage == SaveRequest \/ ManageGet \/ ManagePost \/ ManageOther

SpecManage == Init /\ [][NextManage]_vars

(***************************************************************************)
(* Role resolution over every code and every pair of secrets               *)
(***************************************************************************)
Secrets == Codes \cup {Undefined}

InitResolve ==
    /\ accessCode \in Secrets
    /\ editorCode \in Secrets
    /\ apiKeySet = TRUE
    /\ version = "main"
    /\ docs = <<>>
    /\ last = NoLast
    /\ lastAck = Absent
    /\ inflight = [c \in Clients |-> IdleSlot]
    /\ client = AtWall
    /\ call = IdleCall
    /\ report = IdleReport
    /\ editor = Loaded(defaultQuestions)

VerifyAnyCode ==
    \E code \in Codes : Handle("POST", code, "verify", Absent, "ok", "ok")

NextResolve == VerifyAnyCode

SpecResolve == InitResolve /\ [][NextResolve]_vars

(***************************************************************************)
(* Two save requests whose fetches interleave: each execution of the       *)
(* function awaits its listing fetch, then its write fetch                 *)
(***************************************************************************)
\* another execution took a step between this one's probe and its write
Overlap(slot) == IF slot.pc = "probed" THEN [slot EXCEPT !.overlapped = TRUE] ELSE slot

\* the checks every POST passes, then the save branch as far as its probe
raceProbe(rq, listRes, d) ==
    LET gate == codeGate(rq) IN
    IF gate.status # 0 THEN Slot("done", gate, Absent, 0, "none", "none")
    ELSE saveProbe(rq.code, rq.questions, listRes, d)

SaveProbe(c) ==
    \E code \in ReqCodes, sent \in Definitions :
    \E listRes \in IF Lists("POST", code, "save-questions", sent)
                   THEN StoreResults ELSE {"ok"} :
        /\ inflight[c].pc # "probed"
        /\ \E slot \in {raceProbe(requestBody("POST", code, "save-questions", sent),
                                  listRes, docs)} :
               inflight' = [k \in Clients |-> IF k = c THEN slot ELSE Overlap(inflight[k])]
        /\ UNCHANGED <<envVars, editor, docs, last, lastAck, client, call, report>>

SaveWrite(c) ==
    \E writeRes \in StoreResults :
        /\ inflight[c].pc = "probed"
        /\ \E out \in {writeDocument(inflight[c].id, JSONstringify(inflight[c].questions),
                                     writeRes, docs)} :
               /\ Len(out.docs) <= MaxDocs
               /\ docs' = out.docs
               /\ inflight' = [k \in Clients |->
                                  IF k = c
                                  THEN [inflight[c] EXCEPT !.pc = "done", !.resp = out.resp,
                                                           !.branch = out.branch]
                                  ELSE Overlap(inflight[k])]
        /\ UNCHANGED <<envVars, editor, last, lastAck, client, call, report>>

InitRace ==
    /\ accessCode = <<"a">>
    /\ editorCode \in EditorSecrets \ {Undefined}
    /\ apiKeySet = TRUE
    /\ version = "main"
    /\ docs = <<>>
    /\ last = NoLast
    /\ lastAck = Absent
    /\ inflight = [c \in Clients |-> IdleSlot]
    /\ client = AtWall
    /\ call = IdleCall
    /\ report = IdleReport
    /\ editor = Loaded(defaultQuestions)

NextRace == \E c \in Clients : SaveProbe(c) \/ SaveWrite(c)

SpecRace == InitRace /\ [][NextRace]_vars

(***************************************************************************)
(* src/data/questionsData.ts: what the client makes of a load response     *)
(***************************************************************************)
\* executeWithRetry came back with null: no response body
NoBody == Response(0, FALSE)

\* the promise rejects with 'Failed to load questions'
LoadFailed == [kind |-> "throws", settings |-> NoSettings, questions |-> <<>>]

\* loadQuestions without its fallback for a store that has no content
loadQuestionsNoFallback(responseBody) ==
    IF responseBody = NoBody THEN LoadFailed
    ELSE IF responseBody.ok /\ TruthyValue(responseBody.questions)
    THEN IF responseBody.questions.kind = "array"
         THEN Payload(NoSettings, responseBody.questions.questions)
         ELSE responseBody.questions
    ELSE LoadFailed

\* loadQuestions, from the parsed response body on
loadQuestions(responseBody) ==
    IF responseBody = NoBody THEN LoadFailed
    ELSE IF responseBody.ok /\ TruthyValue(responseBody.questions)
    THEN IF responseBody.questions.kind = "array"
         THEN Payload(NoSettings, responseBody.questions.questions)
         ELSE responseBody.questions
    ELSE IF responseBody.ok THEN Payload(NoSettings, defaultQuestions)
    ELSE LoadFailed

(***************************************************************************)
(* One browser against the deployed function: an editor elsewhere saves,   *)
(* the browser verifies at the wall and mounts what it unlocked            *)
(***************************************************************************)
\* a save-questions request from an editor who typed the editor code
EditorSave ==
    \E sent \in Definitions, listRes \in StoreResults, writeRes \in StoreResults :
        /\ Truthy(editorCode)
        /\ \E out \in {serve(requestBody("POST", editorCode, "save-questions", sent),
                             listRes, writeRes, docs)} :
               /\ Len(out.docs) <= MaxDocs
               /\ docs' = out.docs
               /\ lastAck' = IF out.resp.saved THEN sent ELSE lastAck
        /\ UNCHANGED <<envVars, editor, last, inflight, client, call, report>>

\* the form is submitted: fails attempts throw, the next one brings the response
Submit ==
    \E typed \in ReqCodes, fails \in 0..maxRetries, listRes \in StoreResults :
        /\ client.screen = "wall"
        /\ IF fails >= maxRetries
           THEN /\ client' = [AtWall EXCEPT
                                  !.code = toUpperCase(typed),
                                  !.error = "Unable to verify. Please try again.",
                                  !.sent = client.sent \cup {"verify-code"}]
                /\ docs' = docs
           ELSE \E out \in {serve(requestBody("POST", trim(toUpperCase(typed)),
                                              "verify-code", Absent),
                                  listRes, "ok", docs)} :
                    /\ client' = [handleSubmit(toUpperCase(typed), out.resp) EXCEPT
                                     !.knew = lastAck, !.listed = listRes,
                                     !.sent = client.sent \cup {"verify-code"}]
                    /\ docs' = out.docs
        /\ UNCHANGED <<envVars, editor, last, lastAck, inflight, call, report>>

\* variant: the effect starts doLoad whether or not a payload was handed down
MountAlwaysLoads ==
    /\ client.screen \in {"page", "editor"}
    /\ ~client.mounted
    /\ client' = [client EXCEPT !.mounted = TRUE, !.loading = TRUE,
                                !.loads = client.loads + 1,
                                !.sent = client.sent \cup {"load-questions"}]
    /\ UNCHANGED <<envVars, editor, docs, last, lastAck, inflight, call, report>>

\* useEffect of the unlocked component: take the preloaded payload, or start doLoad
Mount ==
    /\ client.screen \in {"page", "editor"}
    /\ ~client.mounted
    /\ IF TruthyValue(client.payload) /\ client.payload.kind = "array"
       \* an array has no questions property: the page's [...payload.questions] throws
       \* in the effect, the editor's list is set to undefined and its render throws
       THEN client' = [client EXCEPT !.mounted = TRUE, !.screen = "crashed",
                                     !.loading = (client.screen = "page")]
       ELSE IF TruthyValue(client.payload)
       THEN \E p \in IF client.screen = "page" THEN processPayload(client.payload)
                     ELSE {[payload |-> client.payload,
                            questions |-> client.payload.questions]} :
                client' = [client EXCEPT !.mounted = TRUE, !.loading = FALSE,
                                         !.payload = p.payload, !.questions = p.questions]
       ELSE client' = [client EXCEPT !.mounted = TRUE, !.loading = TRUE,
                                     !.loads = client.loads + 1,
                                     !.sent = client.sent \cup {"load-questions"}]
    /\ UNCHANGED <<envVars, editor, docs, last, lastAck, inflight, call, report>>

\* doLoad's loadQuestions settles: every attempt threw, or a response came back
LoadDone ==
    \E fails \in 0..MAX_RETRIES, listRes \in StoreResults :
        /\ client.mounted /\ client.loading
        /\ \E out \in {serve(requestBody("POST", client.code, "load-questions", Absent),
                              listRes, "ok", docs)} :
           \E payload \in {IF fails >= MAX_RETRIES THEN loadQuestions(NoBody)
                           ELSE loadQuestions(out.resp)} :
               /\ client' = IF payload = LoadFailed
                            THEN [client EXCEPT !.loading = FALSE, !.loadError = TRUE]
                            ELSE [client EXCEPT !.loading = FALSE,
                                                !.questions = payload.questions]
               /\ docs' = IF fails >= MAX_RETRIES THEN docs ELSE out.docs
        /\ UNCHANGED <<envVars, editor, last, lastAck, inflight, call, report>>

\* TestPage.handleSubmit with both names filled in: sendResults runs formatResults,
\* whose loadQuestions either fails on every attempt or brings a response, and then
\* calls the send-test-results function
SubmitTest ==
    /\ client.screen = "page" /\ client.mounted /\ ~client.loading
    /\ client.submitState = "idle"
    /\ \E fails \in 0..MAX_RETRIES, listRes \in StoreResults, delivered \in BOOLEAN :
       \E out \in {serve(requestBody("POST", client.code, "load-questions", Absent),
                          listRes, "ok", docs)} :
       \E payload \in {IF fails >= MAX_RETRIES THEN loadQuestions(NoBody)
                       ELSE loadQuestions(out.resp)} :
           /\ client' = [client EXCEPT
                             !.sent = client.sent \cup
                                      IF payload = LoadFailed THEN {"load-questions"}
                                      ELSE {"load-questions", "send-test-results"},
                             !.hasName = TRUE,
                             !.submitState = IF payload # LoadFailed /\ delivered
                                             THEN "success" ELSE "error"]
           /\ docs' = IF fails >= MAX_RETRIES THEN docs ELSE out.docs
    /\ UNCHANGED <<envVars, editor, last, lastAck, inflight, call, report>>

InitPreload ==
    /\ accessCode = <<"a">>
    /\ editorCode \in EditorSecrets
    /\ apiKeySet \in BOOLEAN
    /\ version \in {"main", "guide"}
    /\ docs = <<>>
    /\ last = NoLast
    /\ lastAck = Absent
    /\ inflight = [c \in Clients |-> IdleSlot]
    /\ client = AtWall
    /\ call = IdleCall
    /\ report = IdleReport
    /\ editor = Loaded(defaultQuestions)

NextPreload == EditorSave \/ Submit \/ Mount \/ LoadDone \/ SubmitTest

SpecPreload == InitPreload /\ [][NextPreload]_vars

(***************************************************************************)
(* A browser in front of a collection that already holds its document:    *)
(* nothing, a legacy bare array, or a {settings, questions} object         *)
(***************************************************************************)
StoredContents == Definitions \cup {Legacy}

InitStored ==
    /\ accessCode = <<"a">>
    /\ editorCode \in EditorSecrets
    /\ apiKeySet \in BOOLEAN
    /\ version \in {"main", "guide"}
    /\ docs \in {<<>>} \cup {<<JSONstringify(c)>> : c \in StoredContents}
    /\ last = NoLast
    /\ lastAck = Absent
    /\ inflight = [c \in Clients |-> IdleSlot]
    /\ client = AtWall
    /\ call = IdleCall
    /\ report = IdleReport
    /\ editor = Loaded(defaultQuestions)

NextStored == Submit \/ Mount \/ LoadDone

SpecStored == InitStored /\ [][NextStored]_vars

(***************************************************************************)
(* TestEditor.handleSave: saveQuestions through executeWithRetry, against  *)
(* the function that is deployed                                           *)
(***************************************************************************)
\* Save is pressed: saveQuestions issues its first createExecution
handleSave ==
    /\ call.pc = "idle"
    /\ Truthy(editorCode)
    /\ call' = [call EXCEPT !.op = "save", !.pc = "running"]
    /\ UNCHANGED <<envVars, editor, docs, last, lastAck, inflight, client, report>>

\* the pending createExecution throws before the function ran (executeWithRetry
\* waits and goes on, or gives up), or the function runs and its response body is
\* handed to saveQuestions; once saveQuestions settles, handleSave shows its toast
SaveAttempt ==
    /\ call.pc = "running" /\ call.op = "save"
    /\ \/ /\ call' = executeWithRetry(call, "throws")
          /\ UNCHANGED <<docs, last, lastAck>>
       \/ \E sent \in Definitions, listRes \in StoreResults, writeRes \in StoreResults :
            \E out \in {serve(requestBody("POST", editorCode, "save-questions", sent),
                               listRes, writeRes, docs)} :
                /\ Len(out.docs) <= MaxDocs
                /\ docs' = out.docs
                /\ last' = [fn |-> "verify-access-code",
                            rq |-> requestBody("POST", editorCode, "save-questions", sent),
                            sent |-> sent,
                            list |-> IF out.probed THEN listRes ELSE "none",
                            write |-> IF out.branch # "none" THEN writeRes ELSE "none",
                            resp |-> out.resp, probed |-> out.probed, branch |-> out.branch]
                /\ lastAck' = IF out.resp.saved THEN sent ELSE lastAck
                /\ call' = executeWithRetry(call, IF out.resp.ok THEN "okTrue" ELSE "okFalse")
    /\ UNCHANGED <<envVars, editor, inflight, client, report>>

\* the toast goes away and Save can be pressed again
hideToast ==
    /\ call.pc = "done"
    /\ call' = IdleCall
    /\ UNCHANGED <<envVars, editor, docs, last, lastAck, inflight, client, report>>

NextSave == handleSave \/ SaveAttempt \/ hideToast

SpecSave == InitPreload /\ [][NextSave]_vars

(***************************************************************************)
(* TestPage: the name fields, the submit button and handleSubmit around   *)
(* its awaited sendResults                                                 *)
(***************************************************************************)
\* the first and last name fields are edited: both filled, or one left empty
\* (onChange clears the name error); the form is gone once the state is success
typeName ==
    \E filled \in BOOLEAN :
        /\ client.screen = "page" /\ client.submitState # "success"
        /\ client' = [client EXCEPT !.hasName = filled, !.nameError = FALSE]
        /\ UNCHANGED <<envVars, editor, docs, last, lastAck, inflight, call, report>>

\* variant: a button that can be pressed in every state
submitEnabledAlways(c) == TRUE

\* the button is rendered unless the state is success and disabled while sending
submitEnabled(c) == c.submitState \notin {"sending", "success"}

\* handleSubmit up to its await: the name check, then setSubmitState('sending') and
\* the call of sendResults
clickSubmit ==
    /\ client.screen = "page" /\ client.mounted /\ ~client.loading
    /\ submitEnabled(client)
    /\ IF ~client.hasName
       THEN /\ client' = [client EXCEPT !.nameError = TRUE]
            /\ call' = call
       ELSE /\ client' = [client EXCEPT !.nameError = FALSE, !.submitState = "sending"]
            /\ call' = [IdleCall EXCEPT !.op = "deliver", !.pc = "running"]
    /\ UNCHANGED <<envVars, editor, docs, last, lastAck, inflight, report>>

\* functions/send-test-results: the request of sendResults is a POST with subject
\* and message; the answer depends on the key and on what the mail server did
sendTestResults(postal) ==
    IF postal = "unconfigured" THEN ErrorResponse(500, "Server configuration error")
    ELSE IF postal = "throws" THEN ErrorResponse(500, "Internal server error")
    ELSE IF postal = "nonJSON" THEN ErrorResponse(500, "Invalid response from mail server")
    ELSE IF postal = "success" THEN Response(200, TRUE)
    ELSE ErrorResponse(500, "Failed to send email")

\* what createExecution gives the browser for an execution that answered resp: the
\* call rejects (the connection or the wait for the response broke), the execution
\* is reported failed with no body (it outlasted the synchronous wait), or the
\* response is delivered, a 5xx one as a failed execution
executionOf(resp, fate) ==
    IF fate = "rejects" THEN "throws"
    ELSE IF fate = "timeout" THEN "failed"
    ELSE IF resp.status >= 500 THEN "failedText"
    ELSE IF resp.ok THEN "okTrue" ELSE "okFalse"

\* the awaited sendResults goes on: formatResults fails to load the definition, or
\* the function runs, the mail server accepts the message or not, and the pending
\* createExecution settles; when sendResults returns or throws, handleSubmit sets
\* success or error
SendAttempt ==
    /\ client.submitState = "sending" /\ call.pc = "running" /\ call.op = "deliver"
    /\ \E c \in {[sendResults(call, executionOf(sendTestResults(postal[1]), postal[2]))
                    EXCEPT !.accepted = call.accepted + IF postal[1] = "success" THEN 1 ELSE 0] :
                  postal \in {"unconfigured", "throws", "nonJSON", "error", "success"}
                             \X {"rejects", "timeout", "delivers"}}
              \cup (IF call.results = <<>> THEN {Settle(call, <<>>, "unreachable")} ELSE {}) :
           /\ call' = c
           /\ client' = IF c.pc # "done" THEN client
                        ELSE [client EXCEPT !.submitState = IF c.outcome = "returned"
                                                            THEN "success" ELSE "error"]
    /\ UNCHANGED <<envVars, editor, docs, last, lastAck, inflight, report>>

\* the page of a student, mounted and loaded, the form untouched
InitSubmit ==
    /\ accessCode = <<"a">>
    /\ editorCode = Undefined
    /\ apiKeySet = TRUE
    /\ version = "main"
    /\ docs = <<>>
    /\ last = NoLast
    /\ lastAck = Absent
    /\ inflight = [c \in Clients |-> IdleSlot]
    /\ client = [onUnlock("student", <<"a">>, Null) EXCEPT
                     !.mounted = TRUE, !.loading = FALSE, !.questions = defaultQuestions]
    /\ call = IdleCall
    /\ report = IdleReport
    /\ editor = Loaded(defaultQuestions)

NextSubmit == typeName \/ clickSubmit \/ SendAttempt

SpecSubmit == InitSubmit /\ [][NextSubmit]_vars

(***************************************************************************)
(* One call of a retrying client function: each createExecution is awaited *)
(* before the next is issued, and the gateway decides what each brings     *)
(***************************************************************************)
\* the two walls: the repository's and the build guide's
WallOperations == {"verify", "verifyGuide"}

\* variant: a submit that starts a verification whatever checking says
handleSubmitStartUnguarded(c, op) == [IdleCall EXCEPT !.op = op, !.pc = "running"]

\* the head of AccessCodeWall.handleSubmit: nothing happens while checking is true
\* (the call is running); otherwise checking is set, the error is cleared and the
\* loop starts with retryCount 0
handleSubmitStart(c, op) ==
    IF c.pc = "running" THEN c ELSE [IdleCall EXCEPT !.op = op, !.pc = "running"]

\* the form of the wall is submitted with a code typed in
SubmitWall ==
    \E op \in WallOperations :
        /\ call.op \in {"none", op}
        /\ call' = handleSubmitStart(call, op)
        /\ UNCHANGED <<envVars, editor, docs, last, lastAck, inflight, client, report>>

\* loadQuestions, saveQuestions or sendResults is called
Invoke ==
    \E op \in Operations \ WallOperations :
        /\ call.pc = "idle"
        /\ call' = [call EXCEPT !.op = op, !.pc = "running"]
        /\ UNCHANGED <<envVars, editor, docs, last, lastAck, inflight, client, report>>

\* the pending createExecution settles and the loop runs on from it
Attempt ==
    \E r \in GatewayResults :
        /\ call.pc = "running"
        /\ Len(call.results) < MaxCalls
        /\ call' = IF call.op \in {"load", "save"} THEN executeWithRetry(call, r)
                   ELSE IF call.op = "verify" THEN handleSubmitPass(call, r)
                   ELSE IF call.op = "verifyGuide" THEN handleSubmitGuide(call, r)
                   ELSE sendResults(call, r)
        /\ UNCHANGED <<envVars, editor, docs, last, lastAck, inflight, client, report>>

InitRetry ==
    /\ accessCode = <<"a">>
    /\ editorCode = Undefined
    /\ apiKeySet = TRUE
    /\ version = "main"
    /\ docs = <<>>
    /\ last = NoLast
    /\ lastAck = Absent
    /\ inflight = [c \in Clients |-> IdleSlot]
    /\ client = AtWall
    /\ call = IdleCall
    /\ report = IdleReport
    /\ editor = Loaded(defaultQuestions)

NextRetry == SubmitWall \/ Invoke \/ Attempt

SpecRetry == InitRetry /\ [][NextRetry]_vars

\* every awaited createExecution settles: it resolves or it rejects
SpecRetryFair == SpecRetry /\ WF_vars(Attempt)

(***************************************************************************)
(* One run of formatResults: it loads the definition, then grades question *)
(* after question, then writes the header with the score                   *)
(***************************************************************************)
\* await loadQuestions(code): the definition arrives, or the promise rejects
StartReport ==
    \E loaded \in BOOLEAN :
        /\ report.pc = "idle"
        /\ report' = [report EXCEPT !.pc = IF loaded THEN "grading" ELSE "throws"]
        /\ UNCHANGED <<envVars, editor, docs, last, lastAck, inflight, client, call>>

\* strictly ascending lists of option indices, at least one
IndexLists(n) ==
    {l \in UNION {[1..k -> 0..(n - 1)] : k \in 1..n} :
        \A i, j \in DOMAIN l : i < j => l[i] < l[j]}

\* the selections handleMultiSelect can build: an option text is appended when it is
\* absent and removed when it is present, so no text occurs twice
handleMultiSelect(n) ==
    {l \in UNION {[1..k -> OptionTexts] : k \in 0..n} :
        \A i, j \in DOMAIN l : i # j => l[i] # l[j]}

\* copies of a loaded question a browser can hold: as loaded, with the options in
\* another order (processPayload leaves the indices alone), or with the indices of
\* the correct options changed in the browser's memory
HeldCopies(options, correctIndex, correctIndices) ==
    {<<options, correctIndex, correctIndices>>,
     <<[i \in DOMAIN options |-> options[Len(options) + 1 - i]], correctIndex, correctIndices>>,
     <<options, IF correctIndex = 0 THEN 1 ELSE 0,
       IF correctIndices = <<0>> THEN <<1>> ELSE <<0>>>>}

\* the loop body runs on the next question of the definition
GradeQuestion ==
    /\ report.pc = "grading"
    /\ report.graded < MaxQuestions
    /\ \E type \in {"multiple-choice", "multiple-answer", "essay"} :
       \E options \in IF type = "essay" THEN {<<>>}
                      ELSE UNION {[1..n -> OptionTexts] : n \in 2..MaxOptions} :
       \E correctIndex \in IF type = "multiple-choice" THEN 0..Len(options) ELSE {0} :
       \E correctIndices \in IF type = "multiple-answer" THEN IndexLists(Len(options))
                             ELSE {<<>>} :
       \E held \in HeldCopies(options, correctIndex, correctIndices) :
       \E submitted \in IF type = "multiple-answer" THEN handleMultiSelect(Len(options))
                        ELSE {<<>>} \cup {<<t>> : t \in OptionTexts} :
           report' = formattedResults(report, type, options, correctIndex, correctIndices,
                                      held, submitted)
    /\ UNCHANGED <<envVars, editor, docs, last, lastAck, inflight, client, call>>

\* the loop moves on: q, answer and isCorrect go out of scope
NextQuestion ==
    /\ report.pc = "graded"
    /\ report' = [IdleReport EXCEPT !.pc = "grading", !.mcCorrect = report.mcCorrect,
                                    !.mcTotal = report.mcTotal, !.graded = report.graded,
                                    !.lines = report.lines]
    /\ UNCHANGED <<envVars, editor, docs, last, lastAck, inflight, client, call>>

\* no question is left: header and lines are joined and returned
FinishReport ==
    /\ report.pc = "grading"
    /\ report' = [report EXCEPT !.pc = "done"]
    /\ UNCHANGED <<envVars, editor, docs, last, lastAck, inflight, client, call>>

InitGrade ==
    /\ accessCode = <<"a">>
    /\ editorCode = Undefined
    /\ apiKeySet = TRUE
    /\ version = "main"
    /\ docs = <<>>
    /\ last = NoLast
    /\ lastAck = Absent
    /\ inflight = [c \in Clients |-> IdleSlot]
    /\ client = AtWall
    /\ call = IdleCall
    /\ report = IdleReport
    /\ editor = Loaded(defaultQuestions)

NextGrade == StartReport \/ GradeQuestion \/ NextQuestion \/ FinishReport

SpecGrade == InitGrade /\ [][NextGrade]_vars

(***************************************************************************)
(* An editing session: handlers run one at a time on the questions state   *)
(***************************************************************************)
InitEditor ==
    /\ accessCode = <<"a">>
    /\ editorCode = <<"b">>
    /\ apiKeySet = TRUE
    /\ version = "main"
    /\ docs = <<>>
    /\ last = NoLast
    /\ lastAck = Absent
    /\ inflight = [c \in Clients |-> IdleSlot]
    /\ client = AtWall
    /\ call = IdleCall
    /\ report = IdleReport
    /\ editor = Loaded(<<createBlankQuestion(1, "multiple-answer")>>)

NextEditor ==
    \/ changeType \/ updatePrompt \/ updateOption \/ addOption \/ deleteOption
    \/ setCorrectIndex \/ toggleCorrectIndex \/ addQuestion \/ deleteQuestion \/ handleReset

SpecEditor == InitEditor /\ [][NextEditor]_vars

(***************************************************************************)
(* What the claims mean by "after trim and upper-casing"                   *)
(***************************************************************************)
\* the code without its surrounding spaces, letters folded to one case
Canonical(s) ==
    LET solid == {i \in DOMAIN s : s[i] # " "}
        first == CHOOSE i \in solid : \A j \in solid : i <= j
        final == CHOOSE i \in solid : \A j \in solid : i >= j
    IN  IF solid = {} THEN <<>>
        ELSE [i \in 1..(final - first + 1) |->
                 IF s[first + i - 1] \in {"a", "A"} THEN "A" ELSE s[first + i - 1]]

Configured(secret) == secret # Undefined /\ secret # <<>>

MatchesEditor(code) == Configured(editorCode) /\ Canonical(code) = Canonical(editorCode)

MatchesStudent(code) == Canonical(code) = Canonical(accessCode)

\* a POST with a code, to a function whose student secret is configured
Gated == last.rq.method = "POST" /\ last.rq.code # <<>> /\ Configured(accessCode)

IsSave == last.rq.action = "save-questions"
IsLoad == last.rq.action = "load-questions"
IsVerify == last.rq.action = "verify"

(***************************************************************************)
(* Access control of verify-access-code                                    *)
(***************************************************************************)
\* C1: a save-questions request changes the store only if its code, after trim and
\* upper-casing, equals the configured editor code; with the student's code or any
\* other code it is answered Unauthorized and the store stays exactly as it was:
\* no listing, no update, no create.
C1_SaveNeedsEditorCode ==
    [][(last'.rq.method = "POST" /\ last'.rq.action = "save-questions")
        => /\ docs' # docs => MatchesEditor(last'.rq.code)
           /\ (last'.rq.code # <<>> /\ Configured(accessCode)
               /\ ~MatchesEditor(last'.rq.code))
              => /\ last'.resp.status = 403
                 /\ last'.resp.error = "Unauthorized"
                 /\ ~last'.resp.saved
                 /\ docs' = docs
                 /\ ~last'.probed
                 /\ last'.branch = "none"]_vars

\* the student's code was used for a save of a definition over a store that holds
\* a document, and was turned away
C1_Witness ==
    /\ Gated /\ IsSave
    /\ MatchesStudent(last.rq.code) /\ ~MatchesEditor(last.rq.code)
    /\ last.sent \in Definitions
    /\ docs # <<>>
    /\ last.resp.error = "Unauthorized"

\* C2: on a verify request, with secrets that differ after trim and upper-casing, a
\* code that normalises to the editor secret is valid with role editor, one that
\* normalises to the student secret is valid with role student, any other code is
\* invalid; case and surrounding whitespace of the code and of the secrets never
\* change the outcome.
C2_RoleResolution ==
    (Gated /\ IsVerify
     /\ (Configured(editorCode) => Canonical(editorCode) # Canonical(accessCode)))
    => /\ MatchesEditor(last.rq.code)
          => last.resp.valid = "true" /\ last.resp.role = "editor"
       /\ MatchesStudent(last.rq.code)
          => last.resp.valid = "true" /\ last.resp.role = "student"
       /\ (~MatchesEditor(last.rq.code) /\ ~MatchesStudent(last.rq.code))
          => last.resp.valid = "false" /\ last.resp.role = "absent"
       /\ \A other \in Codes :
             (other # <<>> /\ Canonical(other) = Canonical(last.rq.code))
             => verifyBranch(other) = last.resp

\* a code that differs from the editor secret in case or spacing resolved to editor
\* while a different student secret was configured
C2_Witness ==
    /\ Gated /\ IsVerify
    /\ Configured(editorCode)
    /\ Canonical(editorCode) # Canonical(accessCode)
    /\ last.rq.code # editorCode
    /\ Canonical(editorCode) # editorCode
    /\ last.resp.role = "editor"

\* C3: a load-questions request returns content only when its code resolves to
\* student or editor; any other code is answered Unauthorized, with no content and
\* without the store being read.
C3_LoadNeedsValidCode ==
    (last.rq.method = "POST" /\ IsLoad)
    => /\ TruthyValue(last.resp.questions)
          => MatchesStudent(last.rq.code) \/ MatchesEditor(last.rq.code)
       /\ (Gated /\ ~MatchesStudent(last.rq.code) /\ ~MatchesEditor(last.rq.code))
          => /\ last.resp.status = 403
             /\ last.resp.error = "Unauthorized"
             /\ last.resp.questions = Absent
             /\ ~last.probed

\* a wrong code asked for the content of a store that holds a document and got none
C3_Witness ==
    /\ Gated /\ IsLoad
    /\ ~MatchesStudent(last.rq.code) /\ ~MatchesEditor(last.rq.code)
    /\ docs # <<>> /\ apiKeySet
    /\ last.resp.error = "Unauthorized"

\* C4: when an editor secret is configured and the code matches both secrets, the
\* resolved role is editor and a save with that code is permitted.
C4_EditorWinsCollision ==
    (Gated /\ MatchesEditor(last.rq.code) /\ MatchesStudent(last.rq.code))
    => /\ IsVerify => last.resp.valid = "true" /\ last.resp.role = "editor"
       /\ IsSave => last.resp.error # "Unauthorized"
       /\ (IsSave /\ TruthyValue(last.rq.questions) /\ apiKeySet
           /\ last.list # "throws" /\ last.write = "ok")
          => last.resp.saved /\ docs # <<>>

\* a code matching both secrets saved a definition
C4_Witness ==
    /\ Gated /\ IsSave
    /\ MatchesEditor(last.rq.code) /\ MatchesStudent(last.rq.code)
    /\ last.sent \in Definitions
    /\ last.resp.saved
    /\ JSONparse(docs[Len(docs)]) = last.rq.questions

(***************************************************************************)
(* The single stored document                                              *)
(***************************************************************************)
\* C5: when two saves are acknowledged one after the other, the store holds exactly
\* one document after the second: the second save updates the document the first
\* one created and never creates another, whatever its existence probe comes back
\* with.
C5_SecondSaveUpdates ==
    [][(last'.rq.action = "save-questions" /\ last'.resp.saved /\ Len(docs) = 1)
        => (Len(docs') = 1 /\ last'.branch = "update")]_vars

QuestionKeys ==
    {"id", "type", "prompt", "imageUrl", "options", "correctIndex", "correctIndices"}

\* the two values read the same: settings, and every field of every question
SameDefinition(x, y) ==
    /\ x.kind = y.kind
    /\ x.settings = y.settings
    /\ Len(x.questions) = Len(y.questions)
    /\ \A i \in DOMAIN x.questions : \A k \in QuestionKeys :
           i \in DOMAIN y.questions => Get(x.questions[i], k) = Get(y.questions[i], k)

\* C7: once a save of a definition D is acknowledged and no later save is, every
\* load-questions request with a valid code returns exactly D (its settings and
\* every field of every question, imageUrl included), and the client's
\* loadQuestions hands D on unchanged.
C7_SaveThenLoad ==
    (Gated /\ IsLoad
     /\ (MatchesStudent(last.rq.code) \/ MatchesEditor(last.rq.code))
     /\ last.list = "ok"
     /\ lastAck \in Definitions)
    => /\ SameDefinition(last.resp.questions, lastAck)
       /\ SameDefinition(loadQuestions(last.resp), lastAck)

\* C8: the response to a verify request with a valid code carries valid: true, the
\* role, and the current definition fetched by a single load attempt made inside
\* that request; when that load fails or the store credential is absent the
\* response is still valid: true, with null content.
C8_VerifyPreloads ==
    (Gated /\ IsVerify
     /\ (MatchesStudent(last.rq.code) \/ MatchesEditor(last.rq.code)))
    => /\ last.resp.valid = "true"
       /\ last.resp.role \in {"student", "editor"}
       /\ apiKeySet => last.probed
       /\ (last.probed /\ last.list = "ok" /\ docs # <<>>)
          => last.resp.questions = JSONparse(docs[1])
       /\ (~last.probed \/ last.list # "ok" \/ docs = <<>>)
          => last.resp.questions = Null

\* a save that found the collection empty on a successful probe and then created
CreatedFromEmpty(c) ==
    /\ inflight[c].pc = "done"
    /\ inflight[c].list = "ok"
    /\ inflight[c].id = 0
    /\ inflight[c].resp.saved

\* C6: when two saves both run their existence probe before either runs its create,
\* both see an empty collection, both create, and the collection ends with two
\* documents; with the probe and the write of each save executed without
\* interleaving this state is not reachable.
C6_UpsertRace ==
    \A c1, c2 \in Clients :
        (c1 # c2 /\ CreatedFromEmpty(c1) /\ CreatedFromEmpty(c2))
        => /\ inflight[c1].branch = "create" /\ inflight[c2].branch = "create"
           /\ Len(docs) = 2
           /\ {JSONparse(docs[1]), JSONparse(docs[2])}
                  = {inflight[c1].questions, inflight[c2].questions}
           /\ inflight[c1].overlapped \/ inflight[c2].overlapped

\* both editors saved different definitions into a collection both had seen empty
C6_Witness ==
    /\ CreatedFromEmpty("e1") /\ CreatedFromEmpty("e2")
    /\ inflight["e1"].questions # inflight["e2"].questions
    /\ Len(docs) = 2
    /\ docs[1] # docs[2]

(***************************************************************************)
(* Preload on verify, end to end                                           *)
(***************************************************************************)
\* the same question, whatever order its options are shown in
SameQuestion(a, b) ==
    /\ \A k \in QuestionKeys \ {"options"} : Get(a, k) = Get(b, k)
    /\ ("options" \in DOMAIN a) = ("options" \in DOMAIN b)
    /\ "options" \in DOMAIN a
       => {a.options[i] : i \in DOMAIN a.options} = {b.options[i] : i \in DOMAIN b.options}

\* the list shows exactly the questions of the definition, in some order
Renders(shown, definition) ==
    /\ Len(shown) = Len(definition.questions)
    /\ \A i \in DOMAIN definition.questions :
           \E j \in DOMAIN shown : SameQuestion(shown[j], definition.questions[i])

\* C9: after an editor's save of a three-question definition is acknowledged, a
\* later student verify with the correct code returns exactly that definition in
\* that same response, and the client renders those three questions without
\* issuing a load-questions request.
C9_PreloadEndToEnd ==
    (client.screen = "page" /\ client.role = "student"
     /\ client.knew \in Definitions /\ Len(client.knew.questions) = 3
     /\ client.listed = "ok")
    => /\ SameDefinition(client.payload, client.knew)
       /\ client.loads = 0
       /\ client.mounted => Renders(client.questions, client.knew)

(***************************************************************************)
(* C10                                                                     *)
(***************************************************************************)
\* the gateway failed this attempt: the call was rejected, or the execution is
\* reported with the status 'failed'
GatewayFailed(r) == statusOf(r) \in {"throws", "failed"}

MaxAttempts(op) == IF op \in {"load", "save"} THEN MAX_RETRIES ELSE maxRetries

AllFailed(rs) == \A i \in DOMAIN rs : GatewayFailed(rs[i])

\* C10: Retry harness outcome. While the gateway has failed every attempt so far and
\* fewer than MAX_ATTEMPTS were made, the call has surfaced no error and goes on to
\* the next attempt; when the gateway then succeeds on attempt N <= MAX_ATTEMPTS the
\* caller gets the successful result; when the gateway has failed all MAX_ATTEMPTS
\* attempts the call has ended with the unreachable failure after exactly
\* MAX_ATTEMPTS attempts.
C10_RetryOutcome ==
    LET rs == call.results
        n == Len(rs)
        max == MaxAttempts(call.op)
    IN  /\ (call.op # "none" /\ AllFailed(rs) /\ n < max)
               => call.pc = "running" /\ call.outcome = "none"
        /\ (n >= 1 /\ n <= max /\ AllFailed(SubSeq(rs, 1, n - 1)) /\ rs[n] = "okTrue")
               => call.pc = "done" /\ call.outcome \in {"returned", "unlocked"}
        /\ (call.op # "none" /\ AllFailed(rs) /\ n >= max)
               => call.pc = "done" /\ call.outcome = "unreachable" /\ n = max

(***************************************************************************)
(* C11                                                                     *)
(***************************************************************************)
\* C11: Bounded attempts. Whatever the gateway results are, a verification
\* submission issues at most 3 gateway calls, a load or a save at most 5, and a
\* delivery at most 3.
C11_BoundedAttempts ==
    call.op # "none" => Len(call.results) <= MaxAttempts(call.op)

(***************************************************************************)
(* C12                                                                     *)
(***************************************************************************)
\* the call has used up its attempts
Exhausted(c) ==
    IF c.op \in {"load", "save"} THEN Len(c.results) = MAX_RETRIES
    ELSE c.retryCount = maxRetries

EndedOn(kinds) ==
    /\ call.pc = "done"
    /\ call.results # <<>>
    /\ call.results[Len(call.results)] \in kinds

\* C12: in every retry harness a gateway result with the status 'failed' is a failed
\* attempt: the call ends on it only when its attempts are used up, and then with
\* the unreachable failure, never with the result handed to the caller as a response.
C12_FailedStatusRetried ==
    EndedOn({"failed", "failedText"}) => Exhausted(call) /\ call.outcome = "unreachable"

(***************************************************************************)
(* C13                                                                     *)
(***************************************************************************)
\* C13: on the verify and save paths a parsed refusal is not retried. A verify
\* response with valid:false ends the submission on that gateway call with the
\* invalid-code message, and a save-questions response with ok:false (Unauthorized)
\* makes saveQuestions throw the server's error on that gateway call; no delay and
\* no further attempt follows it, and it uses none of the retry budget.
C13_RefusalsNotRetried ==
    \A i \in DOMAIN call.results :
        (call.op \in {"verify", "verifyGuide", "save"} /\ call.results[i] = "okFalse")
        => /\ i = Len(call.results)
           /\ call.pc = "done"
           /\ call.outcome = IF call.op = "save" THEN "appError" ELSE "invalid"
           /\ call.delays <= i - 1
           /\ call.retryCount <= i - 1

\* the wall got valid:false on the first gateway call and shows the invalid-code message
C13_Witness ==
    /\ call.op = "verify"
    /\ call.results = <<"okFalse">>
    /\ call.pc = "done" /\ call.outcome = "invalid"
    /\ call.delays = 0

(***************************************************************************)
(* C14                                                                     *)
(***************************************************************************)
\* C14: on the delivery path a response that arrives and whose parsed body has
\* ok:false goes to the caller at once: sendResults ends on that gateway call with
\* the application error, issues no further deliver-result attempt, and the
\* response uses none of the retry budget.
C14_DeliveryErrorPropagates ==
    \A i \in DOMAIN call.results :
        (call.op = "deliver" /\ call.results[i] = "okFalse")
        => /\ i = Len(call.results)
           /\ call.pc = "done"
           /\ call.outcome = "appError"
           /\ call.retryCount <= i - 1

(***************************************************************************)
(* C15                                                                     *)
(***************************************************************************)
\* C15: at every call site a response body that does not parse is a failed attempt:
\* the call ends on it only when its attempts are used up, and then with the
\* unreachable failure; it is never reported as success.
C15_MalformedRetried ==
    EndedOn({"text"}) => Exhausted(call) /\ call.outcome = "unreachable"

(***************************************************************************)
(* C16                                                                     *)
(***************************************************************************)
Parsed == {"okTrue", "okFalse"}

\* C16: on the access-code wall 'Invalid access code' is shown only after a response
\* was received and parsed with valid not true, 'Unable to verify' only after all
\* attempts failed and no response was parsed, and onUnlock is called only after a
\* parsed response with valid:true.
C16_WallMessages ==
    call.op \in {"verify", "verifyGuide"}
    => /\ (call.outcome = "invalid" => EndedOn({"okFalse"}))
       /\ (call.outcome = "unlocked" => EndedOn({"okTrue"}))
       /\ (call.outcome = "unreachable"
              => /\ call.retryCount = maxRetries
                 /\ \A i \in DOMAIN call.results : call.results[i] \notin Parsed)
       /\ ((call.pc = "done" /\ \A i \in DOMAIN call.results : call.results[i] \notin Parsed)
              => call.outcome = "unreachable")

\* every attempt of a submission failed and the wall says it was unable to verify
C16_Witness ==
    /\ call.op = "verify"
    /\ call.pc = "done" /\ call.outcome = "unreachable"
    /\ Len(call.results) = maxRetries
    /\ \A i \in DOMAIN call.results : call.results[i] \notin Parsed

(***************************************************************************)
(* C17                                                                     *)
(***************************************************************************)
\* the answer to a verify whose code matches no secret
InvalidCodeResponse == [Response(200, TRUE) EXCEPT !.valid = "false"]

\* C17: when the student secret is not configured, every POST with a non-empty code,
\* the configured editor code included, is answered with the generic configuration
\* error and never with a role; what the wall shows for it differs from what it shows
\* for an invalid code; and the error text is the same when it is the store
\* credential that is missing.
C17_ConfigurationError ==
    /\ (last.rq.method = "POST" /\ last.rq.code # <<>> /\ ~Configured(accessCode))
       => /\ last.resp.status = 500 /\ ~last.resp.ok
          /\ last.resp.error = "Server configuration error"
          /\ last.resp.role = "absent" /\ last.resp.valid = "absent"
          /\ last.resp.questions = Absent /\ ~last.resp.saved
          /\ ~last.probed /\ last.branch = "none"
          /\ wallOutcome(last.resp) = "unreachable"
          /\ wallOutcome(last.resp) # wallOutcome(InvalidCodeResponse)
    /\ (last.resp.status = 500 /\ ~last.probed)
       => last.resp.error = "Server configuration error"

\* the editor's code was sent to a function whose student secret is not set
C17_Witness ==
    /\ ~Configured(accessCode) /\ Configured(editorCode)
    /\ last.rq.method = "POST" /\ IsVerify
    /\ Canonical(last.rq.code) = Canonical(editorCode)
    /\ last.resp.status = 500

(***************************************************************************)
(* C18, C19                                                                *)
(***************************************************************************)
\* a load-questions request with a code that resolves to a role
ValidLoad ==
    /\ Gated /\ IsLoad
    /\ MatchesStudent(last.rq.code) \/ MatchesEditor(last.rq.code)

\* the response is ok:true with questions: null, and loadQuestions makes the
\* built-in default definition of it
AnswersDefault ==
    /\ last.resp.status = 200 /\ last.resp.ok
    /\ last.resp.error = "absent"
    /\ last.resp.questions = Null
    /\ loadQuestions(last.resp) = Payload(NoSettings, defaultQuestions)

\* C18: a load with a valid code against a store that holds no document does not
\* fail: the server answers ok:true with null content and loadQuestions returns the
\* built-in default definition (empty settings, default questions).
C18_EmptyStoreLoad ==
    (ValidLoad /\ docs = <<>>) => AnswersDefault

\* a student's load listed a reachable, empty collection
C18_Witness ==
    /\ ValidLoad /\ MatchesStudent(last.rq.code)
    /\ docs = <<>> /\ apiKeySet /\ last.list = "ok"
    /\ AnswersDefault

C20_MultipleChoiceGrading ==
    (report.graded >= 1 /\ report.type = "multiple-choice")
    => /\ report.isCorrect
          <=> /\ report.submitted # <<>>
              /\ report.correctIndex + 1 \in DOMAIN report.options
              /\ report.submitted[1] = report.options[report.correctIndex + 1]
       /\ report.submitted = <<>> => ~report.isCorrect

(***************************************************************************)
(* C21                                                                     *)
(***************************************************************************)
Range(f) == {f[i] : i \in DOMAIN f}

\* C21: Multiple-answer grading. For every option list, lists with repeated option
\* text included, every correctIndices and every selection, the question is marked
\* correct if and only if the set of submitted strings equals the set of the options
\* at correctIndices; a missing or empty selection is incorrect.
C21_MultipleAnswerGrading ==
    (report.pc = "graded" /\ report.type = "multiple-answer")
    => /\ report.isCorrect
          <=> Range(report.submitted)
                  = {report.options[i + 1] : i \in Range(report.correctIndices)}
       /\ report.submitted = <<>> => ~report.isCorrect

(***************************************************************************)
(* C22                                                                     *)
(***************************************************************************)
Count(lines, marks) == Cardinality({i \in DOMAIN lines : lines[i] \in marks})

\* C22: Aggregate score. In every report the denominator mcTotal is the number of
\* multiple-choice and multiple-answer questions graded, an essay adds to neither
\* count, the numerator mcCorrect is the number of questions marked correct, and
\* 0 <= mcCorrect <= mcTotal for every set of answers.
C22_AggregateScore ==
    /\ report.pc \in {"grading", "graded", "done"}
       => /\ Len(report.lines) = report.graded
          /\ report.mcTotal = Count(report.lines, {"CORRECT", "INCORRECT"})
          /\ report.mcCorrect = Count(report.lines, {"CORRECT"})
          /\ 0 <= report.mcCorrect /\ report.mcCorrect <= report.mcTotal
    /\ report.pc = "graded"
       => /\ report.type = "essay" <=> report.lines[Len(report.lines)] = "Essay"
          /\ report.type # "essay"
             => (report.isCorrect <=> report.lines[Len(report.lines)] = "CORRECT")

\* a finished report over an essay and a question marked correct
C22_Witness ==
    /\ report.pc = "done"
    /\ report.lines \in {<<"Essay", "CORRECT">>, <<"CORRECT", "Essay">>}
    /\ report.mcTotal = 1

(***************************************************************************)
(* C23                                                                     *)
(***************************************************************************)
\* the mark formatResults gives a question under a set of answers
MarkOf(type, q, submitted) ==
    formatResults(IdleReport, type, q[1], q[2], q[3], submitted).lines[1]

CorrectValues(q) ==
    IF q.type = "multiple-choice" THEN {q.options[q.correctIndex + 1]}
    ELSE IF q.type = "multiple-answer"
    THEN {q.options[i + 1] : i \in Range(q.correctIndices)}
    ELSE {}

\* C24: Option shuffling keeps the correct answer by value. For every question with
\* randomizeOptions set and every order the shuffle produces, the option at the
\* shuffled question's correctIndex is the option at the original's correctIndex,
\* and for a multiple-answer question the set of option values at correctIndices
\* is the same before and after.
C24_ShuffleKeepsCorrectValue ==
    (client.screen = "page" /\ client.mounted /\ client.loads = 0)
    => \A i \in DOMAIN client.questions : \A j \in DOMAIN client.payload.questions :
           client.questions[i].id = client.payload.questions[j].id
           => CorrectValues(client.questions[i]) = CorrectValues(client.payload.questions[j])

(***************************************************************************)
(* C25                                                                     *)
(***************************************************************************)
\* C25: Randomization works on copies only. After processPayload runs, the payload
\* it received has the same question order and the same option orders as before, and
\* no step of a student's session (verify, render, answer, submit) issues a
\* save-questions request or changes the stored definition.
C25_RandomizationOnCopies ==
    [][(client' # client /\ client'.role = "student")
       => /\ docs' = docs
          /\ "save-questions" \notin client'.sent
          /\ (~client.mounted /\ client'.mounted) => client'.payload = client.payload]_vars

\* a student's test was submitted from a page that showed the questions in another
\* order than the stored definition has them
C25_Witness ==
    /\ client.role = "student"
    /\ client.submitState = "success"
    /\ TruthyValue(client.payload)
    /\ client.questions # client.payload.questions
    /\ Len(docs) = 1
    /\ JSONparse(docs[1]).questions = client.payload.questions

(***************************************************************************)
(* C26                                                                     *)
(***************************************************************************)
\* a question has just been appended to the list
Added == Len(editor'.questions) = Len(editor.questions) + 1

\* C26: Question ids are never reused. Across every sequence of addQuestion and
\* deleteQuestion, a newly added question gets the id max(existing ids) + 1, and
\* that id is never one that a question deleted earlier in the sequence held.
C26_IdsNeverReused ==
    [][Added => /\ editor'.questions[Len(editor'.questions)].id = maxId + 1
                /\ editor'.questions[Len(editor'.questions)].id \notin editor.deleted]_vars

(***************************************************************************)
(* C27                                                                     *)
(***************************************************************************)
\* C27: The editor's question list is never empty. Starting from a non-empty list,
\* after every sequence of addQuestion, deleteQuestion and handleReset the list
\* holds at least one question, and deleteQuestion on a one-question list changes
\* nothing.
C27_ListNeverEmpty ==
    /\ [](Len(editor.questions) >= 1)
    /\ [][(Len(editor.questions) = 1 /\ editor'.returned = "deleteQuestion")
          => (editor'.questions = editor.questions /\ editor'.deleted = editor.deleted)]_vars

\* deleteQuestion was called on a list of one question, after a question had been
\* added and deleted
C27_Witness ==
    /\ Len(editor.questions) = 1
    /\ editor.returned = "deleteQuestion"
    /\ editor.deleted # {}

(***************************************************************************)
(* C28                                                                     *)
(***************************************************************************)
WellFormed(q) ==
    /\ q.type = "multiple-choice"
       => /\ Len(q.options) >= 2
          /\ 0 <= q.correctIndex /\ q.correctIndex < Len(q.options)
    /\ q.type = "multiple-answer"
       => /\ Len(q.options) >= 2
          /\ q.correctIndices # <<>>
          /\ \A i, j \in DOMAIN q.correctIndices :
                 i # j => q.correctIndices[i] # q.correctIndices[j]
          /\ \A i \in DOMAIN q.correctIndices :
                 0 <= q.correctIndices[i] /\ q.correctIndices[i] < Len(q.options)

\* C28: Option and correct-answer well-formedness is kept by every editor operation.
\* After every sequence of addOption, deleteOption, setCorrectIndex,
\* toggleCorrectIndex, updateOption and changeType, each multiple-choice question has
\* at least 2 options and 0 <= correctIndex < number of options, and each
\* multiple-answer question has at least 2 options and a non-empty, duplicate-free
\* correctIndices whose members are all valid option indices.
C28_WellFormedQuestions ==
    \A i \in DOMAIN editor.questions : WellFormed(editor.questions[i])

\* a multiple-answer question that got a third option, a typed text in it, and a
\* second correct index at it
C28_Witness ==
    /\ editor.questions[1].type = "multiple-answer"
    /\ Len(editor.questions[1].options) = 3
    /\ editor.questions[1].options[3] \in TypedTexts
    /\ editor.questions[1].correctIndices = <<0, 2>>

(***************************************************************************)
(* C29                                                                     *)
(***************************************************************************)
\* the question lists a load-questions call can bring back from the store as it is
LoadResults ==
    {loadQuestions(serve(requestBody("POST", client.code, "load-questions", Absent),
                         listRes, "ok", docs).resp).questions : listRes \in StoreResults}

\* C29: Fallback load. Whenever the editor or the test page mounts without a
\* preloaded payload (null), it issues an explicit load-questions call and renders
\* from its result; whenever a preloaded payload is present it issues no load call.
C29_FallbackLoad ==
    /\ [](client.mounted
          => IF TruthyValue(client.payload)
             THEN /\ client.loads = 0
                  /\ ~client.loading
             ELSE /\ client.loads = 1
                  /\ "load-questions" \in client.sent)
    /\ [][(client.mounted /\ client.loading /\ ~client'.loading /\ ~client'.loadError)
          => client'.questions \in LoadResults]_vars

\* a component that mounted without a payload shows the three questions an editor
\* saved after the code was verified
C29_Witness ==
    /\ client.mounted
    /\ ~TruthyValue(client.payload)
    /\ client.loads = 1
    /\ ~client.loading /\ ~client.loadError
    /\ Len(client.questions) = 3
    /\ docs # <<>>
    /\ client.questions = JSONparse(docs[1]).questions

(***************************************************************************)
(* C30                                                                     *)
(***************************************************************************)
\* what a load-questions request with the student's code gets from documents d
LoadedFrom(d) ==
    verifyAccessCode(requestBody("POST", accessCode, "load-questions", Absent),
                     "ok", "ok", d).resp.questions

\* browser c's save gets its write answered saved: true in this step
WritesSaved(c) ==
    inflight[c].pc = "probed" /\ inflight'[c].pc = "done" /\ inflight'[c].resp.saved

\* C30: Last-write-wins under concurrent editors. When two save-questions requests
\* from two editors both complete with saved: true, in every interleaving of their
\* probe and write steps, a later load returns the definition of the save whose
\* store write happened last.
C30_LastWriteWins ==
    [][\A c, k \in Clients :
          (c # k /\ WritesSaved(c) /\ inflight[k].pc = "done" /\ inflight[k].resp.saved)
          => SameDefinition(LoadedFrom(docs'), inflight'[c].questions)]_vars

(***************************************************************************)
(* C38                                                                     *)
(***************************************************************************)
Ids(qs) == [i \in DOMAIN qs |-> qs[i].id]

\* C38: Id uniqueness and stability in the editor. Starting from a list with
\* pairwise distinct ids, after every sequence of editor operations the ids are
\* still pairwise distinct, and changeType, updatePrompt and the option edits (the
\* handlers that neither add, delete nor reset) leave every question's id unchanged.
C38_IdsDistinctAndStable ==
    /\ [](\A i, j \in DOMAIN editor.questions :
              i # j => editor.questions[i].id # editor.questions[j].id)
    /\ [][(Len(editor'.questions) = Len(editor.questions)
           /\ editor' # Loaded(defaultQuestions))
          => Ids(editor'.questions) = Ids(editor.questions)]_vars

\* two questions with the ids 2 and 3 after the question with id 1 was deleted, the
\* first one changed into an essay with a typed prompt
C38_Witness ==
    /\ Ids(editor.questions) = <<2, 3>>
    /\ editor.deleted = {1}
    /\ editor.questions[1].type = "essay"
    /\ editor.questions[1].prompt \in TypedTexts

(***************************************************************************)
(* C39                                                                     *)
(***************************************************************************)
\* the option at oIndex is marked correct in q
MarkedCorrect(q, oIndex) ==
    IF q.type = "multiple-choice" THEN q.correctIndex = oIndex
    ELSE \E k \in DOMAIN q.correctIndices : q.correctIndices[k] = oIndex

\* C39: deleteOption keeps the correct answer by value. Deleting an option that is
\* not marked correct, with more than 2 options present, leaves options[correctIndex]
\* of a multiple-choice question, and the set of option values at correctIndices of a
\* multiple-answer question, the same as before; deleteOption on a question with
\* exactly 2 options changes nothing.
C39_DeleteOptionKeepsCorrect ==
    /\ [][(editor'.removed # <<>> /\ editor' # editor
           /\ ~MarkedCorrect(editor.questions[1], editor'.removed[1]))
          => /\ Len(editor'.questions[1].options) = Len(editor.questions[1].options) - 1
             /\ CorrectValues(editor'.questions[1]) = CorrectValues(editor.questions[1])]_vars
    /\ [][(editor'.returned = "deleteOption" /\ Len(editor.questions[1].options) = 2)
          => editor'.questions = editor.questions]_vars

\* the second of three options was taken out of a multiple-choice question whose
\* correct option was the third, a typed text
C39_Witness ==
    /\ editor.removed = <<1>>
    /\ editor.questions[1].type = "multiple-choice"
    /\ editor.questions[1].correctIndex = 1
    /\ editor.questions[1].options[2] \in TypedTexts
    /\ editor.questions[1].options[1] = ""

(***************************************************************************)
(* C31                                                                     *)
(***************************************************************************)
\* browser c's save runs its write in this step, after a probe that listed a document
WritesAfterProbe(c) ==
    /\ inflight[c].pc = "probed" /\ inflight'[c].pc = "done"
    /\ inflight[c].list = "ok" /\ inflight[c].id # 0

\* C31: Once the collection holds documents, every save whose probe succeeds updates
\* only the first listed document and every load reads only that document; no
\* operation deletes a document, so the document count never decreases, and in a
\* state with duplicate documents those other than the first listed are never
\* updated again.
C31_FirstDocumentOnly ==
    /\ [](docs # <<>> => LoadedFrom(docs) = LoadedFrom(<<docs[1]>>))
    /\ [][/\ Len(docs') >= Len(docs)
          /\ \A i \in DOMAIN docs : i >= 2 => docs'[i] = docs[i]
          /\ \A c \in Clients :
                 WritesAfterProbe(c)
                 => /\ inflight'[c].branch = "update"
                    /\ Len(docs') = Len(docs)
                    /\ inflight'[c].resp.saved
                       => docs'[1] = JSONstringify(inflight[c].questions)]_vars

\* two documents, and a save that found the first one and updated it to a
\* definition the second does not hold
C31_Witness ==
    /\ Len(docs) = 2
    /\ docs[1] # docs[2]
    /\ \E c \in Clients :
           /\ inflight[c].pc = "done" /\ inflight[c].branch = "update"
           /\ inflight[c].resp.saved
           /\ docs[1] = JSONstringify(inflight[c].questions)


\* C34: every read and every write of the questions document goes through an
\* access-code check: a response that carries stored content answers a request
\* whose code resolves to a role (student or editor), and a request that changes
\* the collection carries the editor's code, whichever function served it
C34_MediatedAccess ==
    /\ [](TruthyValue(last.resp.questions) => isAuthorized(last.rq.code))
    /\ [][docs' # docs => isEditor(last'.rq.code)]_vars

\* the same two conditions for the requests verify-access-code served
C34_VerifyFunctionMediates ==
    /\ []((last.fn = "verify-access-code" /\ TruthyValue(last.resp.questions))
            => isAuthorized(last.rq.code))
    /\ [][(docs' # docs /\ last'.fn = "verify-access-code") => isEditor(last'.rq.code)]_vars

\* an anonymous GET to manage-questions was answered with the stored definition
C34_AnonymousRead ==
    /\ last.fn = "manage-questions" /\ last.rq.method = "GET" /\ last.rq.code = <<>>
    /\ docs # <<>> /\ last.resp.questions = JSONparse(docs[1])

\* an anonymous POST to manage-questions replaced the stored definition
C34_AnonymousWrite ==
    /\ last.fn = "manage-questions" /\ last.rq.method = "POST" /\ last.rq.code = <<>>
    /\ last.branch = "update" /\ last.resp.ok /\ docs # <<>> /\ docs[1] = JSONstringify(last.sent)

\* what an explicit load-questions call of this browser returns for the store as it is
ExplicitLoad ==
    loadQuestions(serve(requestBody("POST", client.code, "load-questions", Absent),
                        "ok", "ok", docs).resp)

\* C32: preload and explicit load agree: whenever the page or the editor has
\* mounted on content preloaded in the verify response, what it shows is the
\* definition an explicit load-questions call returns for the same store: the same
\* settings and the same questions, a legacy bare array being presented as empty
\* settings plus that array
C32_PreloadAgreesWithLoad ==
    (client.mounted /\ TruthyValue(client.payload))
    => /\ client.screen # "crashed"
       /\ ExplicitLoad # LoadFailed
       /\ client.payload.settings = ExplicitLoad.settings
       /\ Renders(client.questions, ExplicitLoad)

\* the same for the stores that hold a {settings, questions} object
C32_ObjectsAgree ==
    (client.mounted /\ TruthyValue(client.payload) /\ JSONparse(docs[1]).kind = "object")
    => /\ client.screen # "crashed"
       /\ ExplicitLoad # LoadFailed
       /\ client.payload.settings = ExplicitLoad.settings
       /\ Renders(client.questions, ExplicitLoad)

\* a browser mounted on a preloaded legacy array
C32_LegacyPreloaded ==
    /\ client.mounted /\ TruthyValue(client.payload) /\ client.payload.kind = "array"
    /\ client.screen = "crashed"
    /\ ExplicitLoad = Payload(NoSettings, Legacy.questions)

\* the save the editor's browser sent was answered in this step
SaveAnswered == call.pc = "running" /\ last' # last

\* the conditions of C33 on one deployment
AcknowledgedOnlyIfStored ==
    /\ last.resp.saved => (last.resp.ok /\ last.write = "ok")
    /\ last.write \in {"rejected", "throws"} => ~last.resp.ok
    /\ (call.op = "save" /\ call.outcome = "returned") => last.resp.ok

\* C33: a save is acknowledged only if it was stored: save-questions answers
\* ok:true with saved:true only when the store accepted the update or create; when
\* the store rejects the write the response is ok:false and the documents are as
\* they were; an accepted write stores the whole serialised definition; and the
\* editor shows its success message only after an ok:true response
C33_AcknowledgedOnlyIfStored ==
    /\ []AcknowledgedOnlyIfStored
    /\ [][(SaveAnswered /\ last'.write \in {"rejected", "throws"}) => docs' = docs]_vars
    /\ [][(SaveAnswered /\ last'.resp.saved)
            => \E i \in DOMAIN docs' : docs'[i] = JSONstringify(last'.sent)]_vars

\* the same conditions where the repository's main.js is the deployed function
C33_RepositoryFunction ==
    /\ [](version = "main" => AcknowledgedOnlyIfStored)
    /\ [][(version = "main" /\ SaveAnswered /\ last'.write \in {"rejected", "throws"})
            => docs' = docs]_vars
    /\ [][(version = "main" /\ SaveAnswered /\ last'.resp.saved)
            => \E i \in DOMAIN docs' : docs'[i] = JSONstringify(last'.sent)]_vars

\* the editor was shown success for a save whose write the store rejected
C33_SuccessOnRejectedWrite ==
    /\ call.op = "save" /\ call.outcome = "returned"
    /\ last.write = "rejected" /\ last.resp.saved
    /\ \A i \in DOMAIN docs : docs[i] # JSONstringify(last.sent)

\* checking is true from setChecking(true) to the setChecking(false) of every exit
Checking == call.pc = "running"

WallOutcomes == {"unlocked", "invalid", "unreachable"}

\* C35: every verification submission of the repository's wall terminates: the
\* handler ends with checking false and one of the three outcomes (onUnlock, the
\* invalid-code message, the unable-to-verify message) after at most maxRetries
\* gateway results, whatever they are; and while checking is true a further submit
\* starts nothing: the only thing that happens to the verification is that its
\* pending attempt settles
C35_SubmissionTerminates ==
    /\ [](call.op = "verify"
            => /\ Len(call.results) <= maxRetries
               /\ Checking => (Len(call.results) < maxRetries /\ call.outcome = "none")
               /\ call.pc = "done" => call.outcome \in WallOutcomes)
    /\ [][(call.op = "verify" /\ Checking)
            => /\ call'.op = "verify"
               /\ Len(call'.results) = Len(call.results) + 1
               /\ \A i \in DOMAIN call.results : call'.results[i] = call.results[i]]_vars
    /\ ((call.op = "verify" /\ Checking) ~> (call.op = "verify" /\ ~Checking))

\* a submission that saw a rejected call, a failed execution, then a parsed refusal
C35_Witness ==
    /\ call.op = "verify" /\ ~Checking /\ call.outcome = "invalid"
    /\ call.results = <<"throws", "failed", "okFalse">>

\* a call of sendResults begins in this step
SendStarted == call' # call /\ call' = [IdleCall EXCEPT !.op = "deliver", !.pc = "running"]

SubmitMoves ==
    {<<"idle", "sending">>, <<"sending", "success">>, <<"sending", "error">>,
     <<"error", "sending">>}

\* C36: the submission state machine of the test page: submitState moves only
\* idle -> sending -> success or error, and error -> sending on a new submit;
\* while it is sending nothing starts a second sendResults and the one under way
\* is not restarted; once it is success nothing changes any more and no sendResults
\* is started; a sendResults is started only with both names filled in, and the
\* submit that raises the name error leaves submitState and the call as they were
C36_SubmitStateMachine ==
    /\ [](client.submitState = "sending" <=> (call.op = "deliver" /\ call.pc = "running"))
    /\ [][client'.submitState # client.submitState
            => <<client.submitState, client'.submitState>> \in SubmitMoves]_vars
    /\ [][client.submitState = "sending"
            => /\ ~SendStarted
               /\ call' # call => Len(call'.results) >= Len(call.results)]_vars
    /\ [][client.submitState = "success" => (call' = call /\ client' = client)]_vars
    /\ [][SendStarted => (client.hasName /\ client.submitState \in {"idle", "error"})]_vars
    /\ [][(client'.nameError /\ ~client.nameError)
            => (~client.hasName /\ client'.submitState = client.submitState /\ call' = call)]_vars

\* a submission that ended in success after a failed execution, the form hidden
C36_Witness ==
    /\ client.submitState = "success" /\ client.hasName /\ ~client.nameError
    /\ call.pc = "done" /\ call.results = <<"failed", "okTrue">>

\* C37: at-most-once delivery: in one call of sendResults the mail server accepts
\* the report at most once: no further attempt follows an attempt in which the
\* function ran and the mail server accepted the message
C37_AtMostOnceDelivery == call.op = "deliver" => call.accepted <= 1

\* a second acceptance only ever follows an accepted attempt whose outcome the
\* gateway did not deliver: a rejected call or an execution reported failed
C37_OnlyBehindGatewayFailure ==
    (call.op = "deliver" /\ call.accepted >= 2)
    => \E i \in DOMAIN call.results : call.results[i] \in {"throws", "failed"}

\* the report was accepted twice and the student was shown success once
C37_DeliveredTwice ==
    /\ call.op = "deliver" /\ call.accepted = 2
    /\ call.results = <<"throws", "okTrue">> /\ client.submitState = "success"
====
